---- MODULE Spec2Model ----
(***************************************************************************)
(* Model of the client-side cache / request coalescer                      *)
(* (OptimizedTMDBService, src/unnamed/part_000) and of the admin state     *)
(* reducer with its cross-tab broadcaster (src/unnamed/part_005).          *)
(*                                                                         *)
(* Time is the value Date.now() returns.  One model time unit stands for   *)
(* ten minutes of wall clock in the cache part, so DEFAULT_TTL (30 min)    *)
(* is 3.  All handlers are run-to-completion event-loop tasks, so each     *)
(* action is one handler, or one stretch of an async function between two  *)
(* awaits.  In the admin part one time unit is one millisecond, an ISO     *)
(* timestamp is the millisecond it denotes, and a render of AdminProvider  *)
(* with the effects it triggers is part of the handler that dispatched.    *)
(* The queue of OptimizedContentSyncService                                *)
(* (src/services/optimizedContentSync.ts) is modelled with a time unit of  *)
(* one day.                                                                *)
(***************************************************************************)
EXTENDS Integers, Sequences, FiniteSets, TLC

VARIABLES
  now,          \* Date.now()
  cache,        \* CacheManager.cache : key -> [data, timestamp, ttl]
  fillCount,    \* number of listing pages the driver has cached so far
  lastSet,      \* history: active key -> arguments and time of its latest set, or NoSet
  cacheOp,      \* history: the latest CacheManager operation and its result
  requestQueue, \* OptimizedTMDBService.requestQueue : key -> promise
  promises,     \* every fetchData() promise created so far, in creation order
  callers,      \* the async calls into the service that have not returned yet
  delivered,    \* history: the latest result a call returned to its caller
  storage,      \* localStorage['admin_system_state_v2'], a JSON text or NoText
  svc,          \* tab -> its OptimizedRealTimeSyncService
  events,       \* tab -> the storage events queued for its window, oldest first
  state,        \* tab -> the reducer state of its AdminProvider
  calls,        \* history: the listener invocations the latest step made
  step,         \* history: the operation the latest step ran, and its tab
  subsBefore,   \* history: tab -> the callbacks subscribed when destroy() ran
  lastBroadcast,\* history: the latest broadcast(doc) that wrote the key, if P1 made it
  adminLog,     \* history: the admin actions taken so far, oldest first
  appended,     \* history: number of ADD_NOTIFICATION dispatched so far
  received,     \* history: tab -> the text of the document the callback of AdminProvider was given last
  sinceClear,   \* history: of those, the ones since the adder's list was last cleared or synced
  syncQueue,    \* OptimizedContentSyncService.syncQueue, oldest first
  isProcessingQueue, \* its flag of the same name
  syncInProgress,    \* its flag of the same name
  lastDailyUpdate,   \* its field of the same name, a day or NoDate
  lastWeeklyUpdate,  \* its field of the same name, a day or NoDate
  drains,       \* the processQueue() calls that are inside their loop
  syncCount,    \* number of performOptimizedSync() calls so far
  lastSettled,  \* history: the queued operation that settled last, and how
  dispatched,   \* history: the action the reducer was given last
  snapshots,    \* content class -> the snapshot localStorage holds under its key
  freshCalls,   \* the content classes a call is fetching fresh content for
  returned,     \* history: the latest step of a content read and what it returned
  cart,         \* the state of the reducer of CartProviderClone: [items, total]
  channels,     \* RealtimeSyncService.channels : table -> channel, or NoChannel
  live,         \* the channels the realtime client holds subscribed: [id, table]
  created,      \* number of channels the realtime client has created so far
  reuses        \* whether channel(name) of the client library of the build hands
                \* out the channel that already has this name, or always a new one

cacheVars == <<cache, fillCount, lastSet, cacheOp>>
fetchVars == <<requestQueue, promises, callers, delivered>>
ghostVars == <<subsBefore, lastBroadcast, adminLog, appended, sinceClear, received>>
syncVars == <<storage, svc, events, state, calls, step, ghostVars>>
contentVars == <<syncQueue, isProcessingQueue, syncInProgress, lastDailyUpdate,
                 lastWeeklyUpdate, drains, syncCount, lastSettled>>
snapshotVars == <<snapshots, freshCalls, returned>>
realtimeVars == <<channels, live, created, reuses>>
restVars == <<cart, realtimeVars>>
otherVars == <<dispatched, snapshotVars, restVars>>
vars == <<now, cacheVars, fetchVars, syncVars, contentVars, otherVars>>

----------------------------------------------------------------------------
(* Bounds of the model *)

MaxNow == 4
NumFill == 100
MaxTtl == 2
MaxNowFetch == 2
NumCallers == 2
MaxFetches == 2
MaxNowSync == 1
MaxEvents == 1
MaxActions == 2
MaxAppends == 150
MaxSyncs == 2
MaxDay == 1
MaxPending == 2
MaxHour == 9
MaxDebt == 2
MaxTotal == 4
MaxChannels == 3
MaxNowEcho == 2

(* Program constants *)

\* part_000:7, DEFAULT_TTL = 30 * 60 * 1000 ms, in units of ten minutes
DEFAULT_TTL == 3
\* part_000:18, the size above which set() runs cleanup()
CLEANUP_SIZE == 100
\* part_000:155, 10 * 60 * 1000 ms for searches, in units of ten minutes
SEARCH_TTL == 1
\* part_000:108, 60 * 60 * 1000 ms for video lookups, in units of ten minutes
VIDEO_TTL == 6

----------------------------------------------------------------------------
(* Values *)

Null == "null"
NoTtl == -1
NoSet == [set |-> FALSE]
Values == {"v1", "v2"}

Key(kind, n) == <<kind, n>>
ActiveKeys == {Key("movie_details", 1)}
FillKey(i) == Key("popular_movies", i)
FillKeys == {FillKey(i) : i \in 1..NumFill}
CacheKeys == ActiveKeys \cup FillKeys

\* the ttl the driver gives the i-th listing page
FillTtl(i) == 1 + (i % 3)

----------------------------------------------------------------------------
(* CacheManager *)

\* a comparison that also expires an entry at the instant its age reaches ttl
IsStaleAtTtl(entry, t) == t - entry.timestamp >= entry.ttl

IsStale(entry, t) == t - entry.timestamp > entry.ttl

CacheCleanup(c, t) ==
  [k \in {x \in DOMAIN c : ~IsStale(c[x], t)} |-> c[k]]

CacheInsert(c, k, d, ttl, t) ==
  [x \in DOMAIN c \cup {k} |->
     IF x = k THEN [data |-> d, timestamp |-> t, ttl |-> ttl] ELSE c[x]]

TtlArg(ttl) == IF ttl = NoTtl THEN DEFAULT_TTL ELSE ttl

\* a set() that never sweeps
CacheSetNoSweep(c, k, d, ttl, t) == CacheInsert(c, k, d, TtlArg(ttl), t)

CacheSet(c, k, d, ttl, t) ==
  LET ins == CacheInsert(c, k, d, TtlArg(ttl), t)
  IN  IF Cardinality(DOMAIN ins) > CLEANUP_SIZE THEN CacheCleanup(ins, t) ELSE ins

CacheDelete(c, k) == [x \in DOMAIN c \ {k} |-> c[x]]

\* a get() that reports a stale entry as absent and leaves it in the map
CacheGetKeepStale(c, k, t) ==
  IF k \in DOMAIN c /\ ~IsStale(c[k], t) THEN [cache |-> c, value |-> c[k].data]
  ELSE [cache |-> c, value |-> Null]

CacheGet(c, k, t) ==
  IF k \notin DOMAIN c THEN [cache |-> c, value |-> Null]
  ELSE IF IsStale(c[k], t) THEN [cache |-> CacheDelete(c, k), value |-> Null]
  ELSE [cache |-> c, value |-> c[k].data]

EmptyCache == [k \in {} |-> Null]

----------------------------------------------------------------------------
(* OptimizedTMDBService: values *)

Callers == 1..NumCallers

\* keys of the methods that go through fetchWithCache; the endpoint of such a
\* method is determined by the same arguments as its key
FetchKeys == {Key("search_movies", 1)}
TtlOf(k) == IF k[1] = "search_movies" THEN SEARCH_TTL ELSE NoTtl
Endpoint(k) == k

\* getMovieVideos(id): its cache key and the two endpoints it reads
VideoIds == {1}
VideoKey(id) == Key("videos_movie", id)
VideoEs(id) == Key("/movie/videos?language=es-ES", id)
VideoEn(id) == Key("/movie/videos?language=en-US", id)

\* what the provider can answer: a listing, or a video list that is empty,
\* has no YouTube trailer or teaser, or has one
Listings == {"listA", "listB"}
VideoLists == {"noVideos", "noTrailers", "trailers"}
Errors == {"networkError", "httpError"}
EmptyResults == "emptyResults"

Answers(endpoint) ==
  IF endpoint \in {Endpoint(k) : k \in FetchKeys} THEN Listings ELSE VideoLists

NoResult == [kind |-> "none", value |-> Null]
Resolved(v) == [kind |-> "value", value |-> v]
Rejected(e) == [kind |-> "error", value |-> e]

IdleCaller == [pc |-> "idle", key |-> Key("none", 0), promise |-> 0]
NoDelivery == [caller |-> 0, key |-> Key("none", 0), promise |-> 0, result |-> NoResult]

Pending(p) == promises[p].state = "pending"
PromiseIds == 1..Len(promises)
PendingFor(endpoint) ==
  {p \in PromiseIds : Pending(p) /\ promises[p].endpoint = endpoint}
FetchesOf(endpoint) == {p \in PromiseIds : promises[p].endpoint = endpoint}
Max(S) == CHOOSE x \in S : \A y \in S : y <= x
\* the latest fetch of the endpoint has failed
LastFailed(endpoint) ==
  /\ FetchesOf(endpoint) # {}
  /\ promises[Max(FetchesOf(endpoint))].state = "rejected"

\* fetchData(endpoint): a new promise, owned by the call that awaits it
NewPromise(endpoint, c) ==
  Append(promises, [endpoint |-> endpoint, state |-> "pending", value |-> Null, owner |-> c])
OutcomeIn(ps, p) ==
  IF ps[p].state = "fulfilled" THEN Resolved(ps[p].value) ELSE Rejected(ps[p].value)
Outcome(p) == OutcomeIn(promises, p)

----------------------------------------------------------------------------
(* AdminState and adminReducer (part_005) *)

\* part_005:242, the notifications kept by ADD_NOTIFICATION
NOTIFICATION_CAP == 100

VERSION == "2.0.0"
NoTimestamp == -1
NoVersion == "undefined"

DefaultPrices ==
  [moviePrice |-> 80, seriesPrice |-> 300, transferFeePercentage |-> 10,
   novelPricePerChapter |-> 5]
RaisedPrices == [DefaultPrices EXCEPT !.moviePrice = 90]
HigherPrices == [DefaultPrices EXCEPT !.moviePrice = 100]
PriceConfigs == {DefaultPrices, RaisedPrices}
AdminPrices == {RaisedPrices, HigherPrices}

\* an AdminState: the six declared fields, and the timestamp and version that
\* SYNC_STATE copies into the state from a persisted document
initialState(t) ==
  [isAuthenticated |-> FALSE,
   prices |-> DefaultPrices,
   deliveryZones |-> << >>,
   novels |-> << >>,
   notifications |-> << >>,
   syncStatus |-> [isOnline |-> TRUE, lastSync |-> t, pendingChanges |-> 0],
   timestamp |-> NoTimestamp,
   version |-> NoVersion]

Min(a, b) == IF a < b THEN a ELSE b

\* Date.now().toString(): the decimal digits, most significant first
RECURSIVE DecimalString(_)
DecimalString(n) == IF n < 10 THEN <<n>> ELSE DecimalString(n \div 10) \o <<n % 10>>
Max0(a) == IF a < 0 THEN 0 ELSE a

\* [notification, ...state.notifications].slice(0, 100), dropping the newest instead
PrependKeepOldest(n, list) ==
  LET all == <<n>> \o list
  IN  SubSeq(all, Len(all) - Min(Len(all), NOTIFICATION_CAP) + 1, Len(all))

\* [notification, ...state.notifications].slice(0, 100)
PrependCapped(n, list) ==
  LET all == <<n>> \o list
  IN  SubSeq(all, 1, Min(Len(all), NOTIFICATION_CAP))

\* the syncStatus of the actions that count a pending change
Changed(sync, t) ==
  [sync EXCEPT !.pendingChanges = sync.pendingChanges + 1, !.lastSync = t]

\* { ...state, ...action.payload } for a parsed document: every field the
\* payload holds replaces the state's
Spread(st, payload) ==
  [isAuthenticated |-> payload.isAuthenticated,
   prices |-> payload.prices,
   deliveryZones |-> payload.deliveryZones,
   novels |-> payload.novels,
   notifications |-> payload.notifications,
   syncStatus |-> payload.syncStatus,
   timestamp |-> IF payload.timestamp = NoTimestamp THEN st.timestamp
                 ELSE payload.timestamp,
   version |-> IF payload.version = NoVersion THEN st.version ELSE payload.version]

\* a filter that drops the entries from the first one of the id on
WithoutFrom(list, id) ==
  LET at == {i \in 1..Len(list) : list[i].id = id}
  IN  IF at = {} THEN list
      ELSE SubSeq(list, 1, (CHOOSE i \in at : \A j \in at : i <= j) - 1)

\* list.filter(x => x.id !== id) (part_005:182, 225)
Without(list, id) ==
  LET Keep(x) == x.id # id
  IN  SelectSeq(list, Keep)

\* a syncStatus of SYNC_STATE that keeps the pending changes
SyncedKeepPending(sync, t) == [sync EXCEPT !.lastSync = t]

\* the syncStatus of SYNC_STATE (part_005:261-265)
Synced(sync, t) == [sync EXCEPT !.lastSync = t, !.pendingChanges = 0]

adminReducer(st, action, t) ==
  CASE action.type = "LOGIN" ->
         IF action.payload.username = "admin" /\ action.payload.password = "admin123"
         THEN [st EXCEPT !.isAuthenticated = TRUE]
         ELSE st
    [] action.type = "LOGOUT" -> [st EXCEPT !.isAuthenticated = FALSE]
    [] action.type = "UPDATE_PRICES" ->
         [st EXCEPT !.prices = action.payload,
                       !.syncStatus = Changed(st.syncStatus, t)]
    [] action.type \in {"ADD_DELIVERY_ZONE", "ADD_NOVEL"} ->
         LET item == [id |-> t, name |-> action.payload.name,
                      createdAt |-> t, updatedAt |-> t]
         IN  IF action.type = "ADD_DELIVERY_ZONE"
             THEN [st EXCEPT !.deliveryZones = Append(@, item),
                                !.syncStatus = Changed(st.syncStatus, t)]
             ELSE [st EXCEPT !.novels = Append(@, item),
                                !.syncStatus = Changed(st.syncStatus, t)]
    [] action.type \in {"UPDATE_DELIVERY_ZONE", "UPDATE_NOVEL"} ->
         LET Upd(x) == IF x.id = action.payload.id
                       THEN [action.payload EXCEPT !.updatedAt = t] ELSE x
         IN  IF action.type = "UPDATE_DELIVERY_ZONE"
             THEN [st EXCEPT !.deliveryZones = [i \in 1..Len(@) |-> Upd(@[i])],
                                !.syncStatus = Changed(st.syncStatus, t)]
             ELSE [st EXCEPT !.novels = [i \in 1..Len(@) |-> Upd(@[i])],
                                !.syncStatus = Changed(st.syncStatus, t)]
    [] action.type \in {"DELETE_DELIVERY_ZONE", "DELETE_NOVEL"} ->
         IF action.type = "DELETE_DELIVERY_ZONE"
         THEN [st EXCEPT !.deliveryZones = Without(@, action.payload),
                            !.syncStatus = Changed(st.syncStatus, t)]
         ELSE [st EXCEPT !.novels = Without(@, action.payload),
                            !.syncStatus = Changed(st.syncStatus, t)]
    [] action.type = "ADD_NOTIFICATION" ->
         [st EXCEPT !.notifications =
            PrependCapped([id |-> DecimalString(t), timestamp |-> t, action |-> action.payload.action,
                           message |-> action.payload.message], @)]
    [] action.type = "CLEAR_NOTIFICATIONS" -> [st EXCEPT !.notifications = << >>]
    [] action.type = "UPDATE_SYNC_STATUS" ->
         [st EXCEPT !.syncStatus =
            [isOnline |-> IF "isOnline" \in action.payload.has
                          THEN action.payload.isOnline ELSE @.isOnline,
             lastSync |-> IF "lastSync" \in action.payload.has
                          THEN action.payload.lastSync ELSE @.lastSync,
             pendingChanges |-> IF "pendingChanges" \in action.payload.has
                                THEN action.payload.pendingChanges
                                ELSE @.pendingChanges]]
    [] action.type = "SYNC_STATE" ->
         [Spread(st, action.payload) EXCEPT !.syncStatus = Synced(st.syncStatus, t)]
    [] OTHER -> st

----------------------------------------------------------------------------
(* JSON.stringify and JSON.parse of a document *)

\* A JSON text is the sequence of its "key": value members in key order; a
\* member whose value is undefined is left out.  No text is the empty sequence.
NoText == << >>

Stringify(doc) ==
  << <<"isAuthenticated", doc.isAuthenticated>>,
     <<"prices", doc.prices>>,
     <<"deliveryZones", doc.deliveryZones>>,
     <<"novels", doc.novels>>,
     <<"notifications", doc.notifications>>,
     <<"syncStatus", doc.syncStatus>> >>
  \o (IF doc.timestamp = NoTimestamp THEN << >> ELSE << <<"timestamp", doc.timestamp>> >>)
  \o (IF doc.version = NoVersion THEN << >> ELSE << <<"version", doc.version>> >>)

Member(text, key, default) ==
  LET at == {i \in 1..Len(text) : text[i][1] = key}
  IN  IF at = {} THEN default ELSE text[CHOOSE i \in at : TRUE][2]

Parse(text) ==
  [isAuthenticated |-> text[1][2],
   prices |-> text[2][2],
   deliveryZones |-> text[3][2],
   novels |-> text[4][2],
   notifications |-> text[5][2],
   syncStatus |-> text[6][2],
   timestamp |-> Member(text, "timestamp", NoTimestamp),
   version |-> Member(text, "version", NoVersion)]

\* a text cut off after its first member, which JSON.parse throws on
Truncated == << <<"isAuthenticated", FALSE>> >>

\* JSON.parse returns a document for the text, it does not throw
Parses(text) == Len(text) >= 6

\* { ...state, timestamp: new Date().toISOString(), version: '2.0.0' }
SyncData(st, t) == [st EXCEPT !.timestamp = t, !.version = VERSION]

----------------------------------------------------------------------------
(* OptimizedRealTimeSyncService (part_005:274-394) *)

Tabs == {"P1", "P2"}

\* a service before its constructor has run initializeSync
NoService ==
  [listeners |-> {}, syncInterval |-> FALSE, lastKnownState |-> NoText,
   isDestroyed |-> FALSE, storageListener |-> FALSE, visibilityListener |-> FALSE]

\* notifyListeners(data): the invocations it makes
NotifyListeners(s, data) ==
  IF s.isDestroyed THEN {} ELSE {[cb |-> cb, data |-> data] : cb \in s.listeners}

\* a checkForUpdates that records the stored text and tells no listener
CheckForUpdatesSilent(s, stored) ==
  IF ~s.isDestroyed /\ stored # NoText /\ stored # s.lastKnownState
  THEN [svc |-> [s EXCEPT !.lastKnownState = stored], calls |-> {}]
  ELSE [svc |-> s, calls |-> {}]

CheckForUpdates(s, stored) ==
  IF s.isDestroyed THEN [svc |-> s, calls |-> {}]
  ELSE IF stored # NoText /\ stored # s.lastKnownState
  THEN LET s2 == [s EXCEPT !.lastKnownState = stored]
       IN  [svc |-> s2,
            calls |-> IF Parses(stored) THEN NotifyListeners(s2, Parse(stored))
                      ELSE {}]
  ELSE [svc |-> s, calls |-> {}]

HandleStorageChange(s, newValue) ==
  IF s.isDestroyed THEN [svc |-> s, calls |-> {}]
  ELSE IF /\ newValue # NoText
          /\ Parses(newValue)
          /\ Stringify(Parse(newValue)) # s.lastKnownState
  THEN LET s2 == [s EXCEPT !.lastKnownState = Stringify(Parse(newValue))]
       IN  [svc |-> s2, calls |-> NotifyListeners(s2, Parse(newValue))]
  ELSE [svc |-> s, calls |-> {}]

\* broadcast(state): the service afterwards, and the text written (NoText: none)
Broadcast(s, st, t) ==
  LET serialized == Stringify(SyncData(st, t))
  IN  IF ~s.isDestroyed /\ serialized # s.lastKnownState
      THEN [svc |-> [s EXCEPT !.lastKnownState = serialized], write |-> serialized]
      ELSE [svc |-> s, write |-> NoText]

\* a destroy that only stops the timer
DestroyTimerOnly(s) == [s EXCEPT !.syncInterval = FALSE]

\* destroy(): removeEventListener is given this.handleStorageChange, not the bound
\* function initializeSync registered, and the visibility listener is never removed
Destroy(s) ==
  [s EXCEPT !.isDestroyed = TRUE, !.syncInterval = FALSE, !.listeners = {},
            !.lastKnownState = NoText]

Subscribe(s, cb) == [s EXCEPT !.listeners = @ \cup {cb}]
Unsubscribe(s, cb) == [s EXCEPT !.listeners = @ \ {cb}]

\* new OptimizedRealTimeSyncService(): initializeSync with its first check
Construct(stored) ==
  CheckForUpdates([NoService EXCEPT !.syncInterval = TRUE, !.storageListener = TRUE,
                                    !.visibilityListener = TRUE], stored).svc

Provider == "provider"
Callbacks == {"cb1"}

NoStep == [op |-> "none", tab |-> "none"]
NoBroadcast == [tab |-> "none", doc |-> initialState(0), time |-> 0]

InitSyncVars ==
  /\ storage = NoText
  /\ svc = [t \in Tabs |-> NoService]
  /\ events = [t \in Tabs |-> << >>]
  /\ state = [t \in Tabs |-> initialState(0)]
  /\ calls = {}
  /\ step = NoStep
  /\ subsBefore = [t \in Tabs |-> {}]
  /\ lastBroadcast = NoBroadcast
  /\ adminLog = << >>
  /\ appended = 0
  /\ sinceClear = 0
  /\ received = [t \in Tabs |-> NoText]

----------------------------------------------------------------------------
(* OptimizedContentSyncService (src/services/optimizedContentSync.ts) *)

\* a time unit of this part is one day
DAILY_AGE == 1
WEEKLY_AGE == 7

NoDate == -1
NoCaller == [sync |-> 0, weekly |-> FALSE]
DailyOperations == <<"trendingDay", "trendingWeek", "popular", "anime">>
WeeklyOperations == <<"videos">>
NoSettle == [op |-> [sync |-> 0, name |-> "none"], outcome |-> "none"]

InitContentVars ==
  /\ syncQueue = << >>
  /\ isProcessingQueue = FALSE
  /\ syncInProgress = FALSE
  /\ lastDailyUpdate = NoDate
  /\ lastWeeklyUpdate = NoDate
  /\ drains = {}
  /\ syncCount = 0
  /\ lastSettled = NoSettle

----------------------------------------------------------------------------
(* Variables of the parts that are checked on their own *)

NoAction == [type |-> "none"]

\* the content classes that are read through a snapshot: one of
\* getTrendingContent, one of getCachedOrFresh
Classes == {"trending_day", "popular_movies"}
Contents == {"contentA", "contentB"}
NoContent == "none"
NoSnapshot == [kind |-> "none", content |-> NoContent, lastUpdate |-> 0, version |-> "none"]
GarbageSnapshot == [NoSnapshot EXCEPT !.kind = "garbage"]
Snapshot(content, t, version) ==
  [kind |-> "json", content |-> content, lastUpdate |-> t, version |-> version]
NoReturn == [op |-> "none", class |-> "none", from |-> "none", content |-> NoContent]

\* what the key of a class can hold when the application starts: nothing, a
\* text that is no JSON, or a snapshot an earlier session or version wrote
StoredSnapshots ==
  {NoSnapshot, GarbageSnapshot}
  \cup {Snapshot(c, 0, v) : c \in {"contentA"}, v \in {VERSION, "1.0.0"}}

InitSnapshotVars ==
  /\ snapshots \in [Classes -> StoredSnapshots]
  /\ freshCalls = {}
  /\ returned = NoReturn

\* CartProviderClone starts its reducer with { items: [], total: 0 }
EmptyCart == [items |-> << >>, total |-> 0]

Tables == {"novelas", "movies", "tv_shows", "anime", "carousel_items", "app_settings"}
NoChannel == 0

InitRealtime ==
  /\ channels = [table \in Tables |-> NoChannel]
  /\ live = {}
  /\ created = 0

InitRestVars ==
  /\ cart = EmptyCart
  /\ InitRealtime
  /\ reuses = FALSE

InitOtherVars ==
  /\ InitRestVars
  /\ dispatched = NoAction
  /\ snapshots = [c \in Classes |-> NoSnapshot]
  /\ freshCalls = {}
  /\ returned = NoReturn

----------------------------------------------------------------------------
(* Specification of the cache alone *)

NoOp == [kind |-> "none", key |-> Key("none", 0), value |-> Null, ttl |-> 0,
         size |-> 0]

InitCacheVars ==
  /\ cache = EmptyCache
  /\ fillCount = 0
  /\ lastSet = [k \in ActiveKeys |-> NoSet]
  /\ cacheOp = NoOp

InitFetchVars ==
  /\ requestQueue = EmptyCache
  /\ promises = << >>
  /\ callers = [c \in Callers |-> IdleCaller]
  /\ delivered = NoDelivery

InitCache ==
  /\ now = 0
  /\ InitCacheVars
  /\ InitFetchVars
  /\ InitSyncVars
  /\ InitContentVars
  /\ InitOtherVars

Tick ==
  /\ now < MaxNow
  /\ now' = now + 1
  /\ cacheOp' = NoOp
  /\ UNCHANGED <<cache, fillCount, lastSet, fetchVars, syncVars, contentVars, otherVars>>

DoSet(k, d, ttl) ==
  /\ cache' = CacheSet(cache, k, d, ttl, now)
  /\ lastSet' = [x \in ActiveKeys |->
                   IF x = k THEN [set |-> TRUE, data |-> d, at |-> now, ttl |-> TtlArg(ttl)]
                   ELSE lastSet[x]]
  /\ cacheOp' = [kind |-> "set", key |-> k, value |-> d, ttl |-> TtlArg(ttl),
                 size |-> Cardinality(DOMAIN cache \cup {k})]

SetActive ==
  \E k \in ActiveKeys, d \in Values, ttl \in (0..MaxTtl) \cup {NoTtl} :
    /\ DoSet(k, d, ttl)
    /\ UNCHANGED <<now, fillCount, fetchVars, syncVars, contentVars, otherVars>>

\* the driver caches listing pages 1, 2, ... one after another at start-up
SetFill ==
  /\ now = 0
  /\ fillCount < NumFill
  /\ DoSet(FillKey(fillCount + 1), "v1", FillTtl(fillCount + 1))
  /\ fillCount' = fillCount + 1
  /\ UNCHANGED <<now, fetchVars, syncVars, contentVars, otherVars>>

GetActive ==
  \E k \in ActiveKeys :
    LET r == CacheGet(cache, k, now)
    IN  /\ cache' = r.cache
        /\ cacheOp' = [kind |-> "get", key |-> k, value |-> r.value, ttl |-> 0,
                       size |-> Cardinality(DOMAIN cache)]
        /\ UNCHANGED <<now, fillCount, lastSet, fetchVars, syncVars, contentVars, otherVars>>

\* clearCache() is called before or after the start-up burst, not inside it
ClearCache ==
  /\ fillCount \in {0, NumFill}
  /\ cache # EmptyCache
  /\ cache' = EmptyCache
  /\ lastSet' = [k \in ActiveKeys |-> NoSet]
  /\ cacheOp' = [NoOp EXCEPT !.kind = "clear"]
  /\ UNCHANGED <<now, fillCount, fetchVars, syncVars, contentVars, otherVars>>

NextCache == Tick \/ SetActive \/ SetFill \/ GetActive \/ ClearCache

SpecCache == InitCache /\ [][NextCache]_vars

----------------------------------------------------------------------------
(* OptimizedTMDBService: fetchWithCache and getVideosWithFallback *)

\* part_000:65, a request for the key is already in progress
InFlightNever(k) == FALSE

InFlight(k) == k \in DOMAIN requestQueue

\* a delete that runs only after a successful fetch instead of in finally
QueueDeleteOnSuccess(q, k, ok) == IF ok THEN CacheDelete(q, k) ELSE q

\* part_000:77-79, finally { requestQueue.delete(key) }
QueueAfterSettle(q, k, ok) == CacheDelete(q, k)

CanCall(c) == callers[c].pc = "idle"

\* the call of caller c returns (resolves or rejects) with the result
Deliver(c, k, p, result) ==
  delivered' = [caller |-> c, key |-> k, promise |-> p, result |-> result]

CallRecord(k) == [IdleCaller EXCEPT !.key = k]

\* fetchWithCache from its entry to its first await (or its return)
CallFetchWithCache ==
  \E c \in Callers, k \in FetchKeys :
    LET r == CacheGet(cache, k, now)
        call == CallRecord(k)
    IN  /\ CanCall(c)
        /\ cache' = r.cache
        /\ IF r.value # Null
           THEN /\ Deliver(c, k, 0, Resolved(r.value))
                /\ UNCHANGED <<requestQueue, promises, callers>>
           ELSE IF InFlight(k)
           THEN /\ callers' = [callers EXCEPT ![c] =
                                [call EXCEPT !.pc = "waiter", !.promise = requestQueue[k]]]
                /\ UNCHANGED <<requestQueue, promises, delivered>>
           ELSE /\ Len(promises) < MaxFetches
                /\ promises' = NewPromise(Endpoint(k), c)
                /\ requestQueue' = [x \in DOMAIN requestQueue \cup {k} |->
                                      IF x = k THEN Len(promises) + 1 ELSE requestQueue[x]]
                /\ callers' = [callers EXCEPT ![c] =
                                [call EXCEPT !.pc = "initiator",
                                             !.promise = Len(promises) + 1]]
                /\ UNCHANGED delivered
        /\ UNCHANGED <<now, fillCount, lastSet, cacheOp, syncVars, contentVars, otherVars>>

\* getVideosWithFallback from its entry to its first await (or its return)
CallGetVideos ==
  \E c \in Callers, id \in VideoIds :
    LET r == CacheGet(cache, VideoKey(id), now)
        call == CallRecord(VideoKey(id))
    IN  /\ CanCall(c)
        /\ cache' = r.cache
        /\ IF r.value # Null
           THEN /\ Deliver(c, VideoKey(id), 0, Resolved(r.value))
                /\ UNCHANGED <<promises, callers>>
           ELSE /\ Len(promises) < MaxFetches
                /\ promises' = NewPromise(VideoEs(id), c)
                /\ callers' = [callers EXCEPT ![c] =
                                [call EXCEPT !.pc = "vidEs",
                                             !.promise = Len(promises) + 1]]
                /\ UNCHANGED delivered
        /\ UNCHANGED <<now, requestQueue, fillCount, lastSet, cacheOp, syncVars, contentVars, otherVars>>

\* a fetch that leaves the cache as it is
StoreNothing(c, k, v, t) == c

\* part_000:74, this.cache.set(key, data, ttl) once the awaited fetch is there
StoreFetched(c, k, v, t) == CacheSet(c, k, v, TtlOf(k), t)

\* a settled fetch still has calls to resume: they resume as microtasks of the
\* task that settled it, before the clock, the network or another task is heard
Resuming ==
  \E c \in Callers : callers[c].pc = "waiter" /\ ~Pending(callers[c].promise)

Settled(p, outcome, v) == [promises EXCEPT ![p].state = outcome, ![p].value = v]

Finish(c, result) ==
  /\ callers' = [callers EXCEPT ![c] = IdleCaller]
  /\ Deliver(c, callers[c].key, callers[c].promise, result)

\* the english videos joined to spanish ones that hold no trailer (part_000:118-125)
Combined(en) == IF en = "trailers" THEN "noTrailers+trailers" ELSE "noTrailers"

\* a provider fetch succeeds: fetchData resolves and the call awaiting it runs on
\* to its next await or to its return
FetchFulfil ==
  \E p \in PromiseIds :
    \E v \in Answers(promises[p].endpoint) :
      LET c == promises[p].owner
          k == callers[c].key
          id == k[2]
          pc == callers[c].pc
      IN  /\ Pending(p)
          /\ ~Resuming
          /\ IF pc = "initiator"
             THEN /\ cache' = StoreFetched(cache, k, v, now)
                  /\ promises' = Settled(p, "fulfilled", v)
                  /\ requestQueue' = QueueAfterSettle(requestQueue, k, TRUE)
                  /\ Finish(c, Resolved(v))
             ELSE IF pc = "vidEs" /\ v # "trailers"
             THEN /\ Len(promises) < MaxFetches
                  /\ promises' = Append(Settled(p, "fulfilled", v),
                                        [endpoint |-> VideoEn(id), state |-> "pending",
                                         value |-> Null, owner |-> c])
                  /\ callers' = [callers EXCEPT
                                   ![c].pc = IF v = "noVideos" THEN "vidEn1" ELSE "vidEn2",
                                   ![c].promise = Len(promises) + 1]
                  /\ UNCHANGED <<cache, requestQueue, delivered>>
             ELSE LET out == IF pc = "vidEn2" THEN Combined(v) ELSE v
                  IN  /\ cache' = CacheSet(cache, k, out, VIDEO_TTL, now)
                      /\ promises' = Settled(p, "fulfilled", v)
                      /\ Finish(c, Resolved(out))
                      /\ UNCHANGED requestQueue
          /\ UNCHANGED <<now, fillCount, lastSet, cacheOp, syncVars, contentVars, otherVars>>

\* a provider fetch fails: fetchData logs and rethrows; fetchWithCache lets the
\* error through its finally, getVideosWithFallback catches it
FetchReject ==
  \E p \in PromiseIds, e \in Errors :
    LET c == promises[p].owner
        k == callers[c].key
    IN  /\ Pending(p)
        /\ ~Resuming
        /\ promises' = Settled(p, "rejected", e)
        /\ IF callers[c].pc = "initiator"
           THEN /\ requestQueue' = QueueAfterSettle(requestQueue, k, FALSE)
                /\ Finish(c, Rejected(e))
           ELSE /\ Finish(c, Resolved(EmptyResults))
                /\ UNCHANGED requestQueue
        /\ UNCHANGED <<now, cacheVars, syncVars, contentVars, otherVars>>

\* a caller that was handed the in-flight promise sees it settle
WaiterResume ==
  \E c \in Callers :
    /\ callers[c].pc = "waiter"
    /\ ~Pending(callers[c].promise)
    /\ Finish(c, Outcome(callers[c].promise))
    /\ UNCHANGED <<now, cacheVars, requestQueue, promises, syncVars, contentVars, otherVars>>

TickFetch ==
  /\ ~Resuming
  /\ now < MaxNowFetch
  /\ now' = now + 1
  /\ UNCHANGED <<cacheVars, fetchVars, syncVars, contentVars, otherVars>>

\* clearCache()
ClearServiceCache ==
  /\ ~Resuming
  /\ cache # EmptyCache
  /\ cache' = EmptyCache
  /\ UNCHANGED <<now, fillCount, lastSet, cacheOp, fetchVars, syncVars, contentVars, otherVars>>

InitFetch ==
  /\ now = 0
  /\ InitCacheVars
  /\ InitFetchVars
  /\ InitSyncVars
  /\ InitContentVars
  /\ InitOtherVars

\* the methods that go through fetchWithCache
NextFetch ==
  \/ CallFetchWithCache
  \/ FetchFulfil
  \/ FetchReject
  \/ WaiterResume
  \/ TickFetch
  \/ ClearServiceCache

SpecFetch == InitFetch /\ [][NextFetch]_vars

\* the whole service: the video lookups as well
NextService == NextFetch \/ CallGetVideos

SpecService == InitFetch /\ [][NextService]_vars

----------------------------------------------------------------------------
(* The broadcaster and AdminProvider as tabs of one browser *)

\* the tab whose user adds the notifications
Appenders == {"P1"}

Docs == {[initialState(0) EXCEPT !.prices = p] : p \in PriceConfigs}

\* the number of storage events not handled yet
RECURSIVE SumLen(_, _)
SumLen(ev, S) ==
  IF S = {} THEN 0
  ELSE LET t == CHOOSE u \in S : TRUE IN Len(ev[t]) + SumLen(ev, S \ {t})
UnderWay(ev) == SumLen(ev, Tabs)

\* localStorage.setItem fires a storage event in every other window
Post(ev, t, text) ==
  [u \in Tabs |->
     IF u # t /\ text # NoText /\ svc[u].storageListener THEN Append(ev[u], text)
     ELSE ev[u]]

\* a render of AdminProvider with a new state: the save effect broadcasts it
\* (part_005:418-424) and the subscribe effect renews the callback (427-434)
Render(t, s, st, ev, stored) ==
  LET b == Broadcast(s, st, now)
  IN  /\ state' = [state EXCEPT ![t] = st]
      /\ svc' = [svc EXCEPT ![t] = b.svc]
      /\ storage' = IF b.write = NoText THEN stored ELSE b.write
      /\ events' = Post(ev, t, b.write)

\* what the listeners do with the invocations a step made: the callback of
\* AdminProvider dispatches SYNC_STATE unless the text of the synced state is
\* the text of its own (part_005:428-432); other callbacks leave the tab alone
Reaction(t, s, made, ev) ==
  LET synced == {c.data : c \in {x \in made : x.cb = Provider}}
  IN  /\ received' = IF synced = {} THEN received
                     ELSE [received EXCEPT ![t] = Stringify(CHOOSE d \in synced : TRUE)]
      /\ IF synced # {} /\ Stringify(CHOOSE d \in synced : TRUE) # Stringify(state[t])
         THEN /\ Render(t, s, adminReducer(state[t],
                                [type |-> "SYNC_STATE", payload |-> CHOOSE d \in synced : TRUE],
                                now), ev, storage)
              /\ sinceClear' = IF t \in Appenders THEN 0 ELSE sinceClear
         ELSE /\ svc' = [svc EXCEPT ![t] = s]
              /\ events' = ev
              /\ UNCHANGED <<state, storage, sinceClear>>

Made(t, made) == {[tab |-> t, cb |-> c.cb, data |-> c.data] : c \in made}

\* the storage event at the head of a window's queue reaches handleStorageChange
DeliverStorage ==
  \E t \in Tabs :
    /\ events[t] # << >>
    /\ svc[t].storageListener
    /\ LET r == HandleStorageChange(svc[t], Head(events[t]))
       IN  /\ Reaction(t, r.svc, r.calls, [events EXCEPT ![t] = Tail(@)])
           /\ calls' = Made(t, r.calls)
    /\ step' = [op |-> "storage", tab |-> t]
    /\ UNCHANGED <<now, cacheVars, fetchVars, contentVars, otherVars, subsBefore, lastBroadcast, adminLog,
                   appended>>

\* the 10 s interval fires
PollTick ==
  \E t \in Tabs :
    /\ svc[t].syncInterval
    /\ LET r == CheckForUpdates(svc[t], storage)
       IN  /\ Reaction(t, r.svc, r.calls, events)
           /\ calls' = Made(t, r.calls)
    /\ step' = [op |-> "poll", tab |-> t]
    /\ UNCHANGED <<now, cacheVars, fetchVars, contentVars, otherVars, subsBefore, lastBroadcast, adminLog,
                   appended>>

\* the tab becomes visible
VisibilityChange ==
  \E t \in Tabs :
    /\ svc[t].visibilityListener
    /\ LET r == CheckForUpdates(svc[t], storage)
       IN  /\ Reaction(t, r.svc, r.calls, events)
           /\ calls' = Made(t, r.calls)
    /\ step' = [op |-> "visible", tab |-> t]
    /\ UNCHANGED <<now, cacheVars, fetchVars, contentVars, otherVars, subsBefore, lastBroadcast, adminLog,
                   appended>>

\* destroy(), which the cleanup effect of AdminProvider calls (part_005:437-441)
DestroyService ==
  \E t \in Tabs :
    /\ svc[t].storageListener
    /\ svc' = [svc EXCEPT ![t] = Destroy(@)]
    /\ subsBefore' = [subsBefore EXCEPT ![t] = @ \cup svc[t].listeners]
    /\ calls' = {}
    /\ step' = [op |-> "destroy", tab |-> t]
    /\ UNCHANGED <<now, cacheVars, fetchVars, contentVars, otherVars, storage, events, state,
                   lastBroadcast, adminLog, appended, sinceClear, received>>

TickSync ==
  /\ now < MaxNowSync
  /\ now' = now + 1
  /\ calls' = {}
  /\ step' = [op |-> "tick", tab |-> "none"]
  /\ UNCHANGED <<cacheVars, fetchVars, contentVars, otherVars, storage, svc, events, state, ghostVars>>

(* A bare service with subscribers of its own *)

ConstructService ==
  \E t \in Tabs :
    /\ ~svc[t].storageListener
    /\ svc' = [svc EXCEPT ![t] = Construct(storage)]
    /\ calls' = {}
    /\ step' = [op |-> "construct", tab |-> t]
    /\ UNCHANGED <<now, cacheVars, fetchVars, contentVars, otherVars, storage, events, state, ghostVars>>

SubscribeCallback ==
  \E t \in Tabs, cb \in Callbacks :
    /\ svc[t].storageListener
    /\ cb \notin svc[t].listeners
    /\ svc' = [svc EXCEPT ![t] = Subscribe(@, cb)]
    /\ calls' = {}
    /\ step' = [op |-> "subscribe", tab |-> t]
    /\ UNCHANGED <<now, cacheVars, fetchVars, contentVars, otherVars, storage, events, state, ghostVars>>

UnsubscribeCallback ==
  \E t \in Tabs, cb \in Callbacks :
    /\ cb \in svc[t].listeners
    /\ svc' = [svc EXCEPT ![t] = Unsubscribe(@, cb)]
    /\ calls' = {}
    /\ step' = [op |-> "unsubscribe", tab |-> t]
    /\ UNCHANGED <<now, cacheVars, fetchVars, contentVars, otherVars, storage, events, state, ghostVars>>

\* broadcast(doc) on the instance of tab t; the storage event it causes may be
\* lost on its way
BroadcastFrom(t, doc, heard) ==
    /\ svc[t].storageListener
    /\ LET b == Broadcast(svc[t], doc, now)
       IN  /\ svc' = [svc EXCEPT ![t] = b.svc]
           /\ storage' = IF b.write = NoText THEN storage ELSE b.write
           /\ events' = IF heard THEN Post(events, t, b.write) ELSE events
           /\ lastBroadcast' = IF b.write = NoText THEN lastBroadcast
                              ELSE IF t = "P1"
                              THEN [tab |-> t, doc |-> doc, time |-> now]
                              ELSE NoBroadcast
    /\ calls' = {}
    /\ step' = [op |-> "broadcast", tab |-> t]
    /\ UNCHANGED <<now, cacheVars, fetchVars, contentVars, otherVars, state, subsBefore, adminLog,
                   appended, sinceClear, received>>

\* broadcast(doc) while no storage event is under way
BroadcastDoc ==
  \E t \in Tabs, doc \in Docs, heard \in BOOLEAN :
    /\ UnderWay(events) < MaxEvents
    /\ BroadcastFrom(t, doc, heard)

\* broadcast(doc) while storage events of the other window may still wait to be
\* handled in this one
BroadcastAcross ==
  \E t \in Tabs, doc \in Docs, heard \in BOOLEAN :
    /\ \A u \in Tabs \ {t} : Len(events[u]) < MaxEvents
    /\ BroadcastFrom(t, doc, heard)

\* another window of the origin leaves a text under the key that is no JSON
CorruptStorage ==
  /\ storage # Truncated
  /\ UnderWay(events) < MaxEvents
  /\ storage' = Truncated
  /\ events' = [u \in Tabs |->
                  IF svc[u].storageListener THEN Append(events[u], Truncated)
                  ELSE events[u]]
  /\ calls' = {}
  /\ step' = [op |-> "corrupt", tab |-> "none"]
  /\ UNCHANGED <<now, cacheVars, fetchVars, contentVars, otherVars, svc, state, ghostVars>>

InitSync ==
  /\ now = 0
  /\ InitCacheVars
  /\ InitFetchVars
  /\ InitSyncVars
  /\ InitContentVars
  /\ InitOtherVars

NextBcast ==
  \/ ConstructService
  \/ SubscribeCallback
  \/ UnsubscribeCallback
  \/ BroadcastDoc
  \/ DeliverStorage
  \/ PollTick
  \/ VisibilityChange
  \/ DestroyService
  \/ TickSync

SpecBcast == InitSync /\ [][NextBcast]_vars

\* two bare instances whose writes may cross
NextAcross ==
  \/ ConstructService
  \/ SubscribeCallback
  \/ BroadcastAcross
  \/ DeliverStorage
  \/ PollTick
  \/ VisibilityChange
  \/ TickSync

SpecAcross == InitSync /\ [][NextAcross]_vars

----------------------------------------------------------------------------
(* AdminProvider: mount and the admin actions *)

Mounted(t) == Provider \in svc[t].listeners

\* the list of actions one handler dispatched, reduced in order in one render
RECURSIVE Reduce(_, _, _)
Reduce(st, actions, t) ==
  IF actions = << >> THEN st
  ELSE Reduce(adminReducer(st, Head(actions), t), Tail(actions), t)

\* a tab opens the application: the service is constructed during the first
\* render, then the effects run in order: load dispatches SYNC_STATE with the
\* stored document (405-415), save broadcasts the initial state of this render
\* (418-424), subscribe registers the callback (427-434); the dispatched
\* action then renders the loaded state, which the save effect broadcasts
MountTab(t) ==
  /\ ~svc[t].storageListener \/ svc[t].isDestroyed
  /\ LET st0 == initialState(now)
         b == Broadcast(Construct(storage), st0, now)
         s1 == Subscribe(b.svc, Provider)
         stored == IF b.write = NoText THEN storage ELSE b.write
         ev == Post(events, t, b.write)
     IN  IF storage # NoText /\ Parses(storage)
         THEN Render(t, s1, adminReducer(st0, [type |-> "SYNC_STATE",
                                               payload |-> Parse(storage)], now),
                     ev, stored)
         ELSE /\ state' = [state EXCEPT ![t] = st0]
              /\ svc' = [svc EXCEPT ![t] = s1]
              /\ storage' = stored
              /\ events' = ev
  /\ calls' = {}
  /\ step' = [op |-> "mount", tab |-> t]
  /\ UNCHANGED <<now, cacheVars, fetchVars, contentVars, otherVars, ghostVars>>

Mount == \E t \in Tabs : MountTab(t)

\* the adding tab opens the application, or opens it again after closing it
Open == \E t \in Appenders : MountTab(t)

\* broadcastChange as updatePrices holds it: the closure of the first render,
\* whose state is initialState (part_005:480, 571-591)
BroadcastChangeAction ==
  [type |-> "UPDATE_SYNC_STATUS",
   payload |-> [has |-> {"lastSync", "pendingChanges"}, isOnline |-> TRUE,
                lastSync |-> now,
                pendingChanges |-> Max0(initialState(0).syncStatus.pendingChanges - 1)]]

AddNotificationAction(action, message) ==
  [type |-> "ADD_NOTIFICATION", payload |-> [action |-> action, message |-> message]]

\* updatePrices(prices) (part_005:470-480)
UpdatePrices ==
  \E t \in Tabs, p \in AdminPrices :
    /\ Mounted(t)
    /\ Len(adminLog) < MaxActions
    /\ Render(t, svc[t],
              Reduce(state[t], << [type |-> "UPDATE_PRICES", payload |-> p],
                                  AddNotificationAction("update", 0),
                                  BroadcastChangeAction >>, now),
              events, storage)
    /\ adminLog' = Append(adminLog, [tab |-> t, prices |-> p,
                                      quiet |-> \A u \in Tabs : events[u] = << >>])
    /\ calls' = {}
    /\ step' = [op |-> "admin", tab |-> t]
    /\ UNCHANGED <<now, cacheVars, fetchVars, contentVars, otherVars, subsBefore, lastBroadcast, appended,
                   sinceClear, received>>

\* addNotification(n) (part_005:549-551); the message is the ordinal of the call
AddNotification ==
  \E t \in Appenders :
    /\ Mounted(t)
    /\ appended < MaxAppends
    /\ Render(t, svc[t],
              adminReducer(state[t], AddNotificationAction("add", appended + 1), now),
              events, storage)
    /\ appended' = appended + 1
    /\ sinceClear' = sinceClear + 1
    /\ calls' = {}
    /\ step' = [op |-> "add", tab |-> t]
    /\ UNCHANGED <<now, cacheVars, fetchVars, contentVars, otherVars, subsBefore, lastBroadcast, adminLog, received>>

\* clearNotifications() (part_005:553-562)
ClearNotifications ==
  \E t \in Appenders :
    /\ Mounted(t)
    /\ appended < MaxAppends
    /\ Render(t, svc[t],
              Reduce(state[t], << [type |-> "CLEAR_NOTIFICATIONS"],
                                  AddNotificationAction("clear", appended + 1) >>, now),
              events, storage)
    /\ appended' = appended + 1
    /\ sinceClear' = 1
    /\ calls' = {}
    /\ step' = [op |-> "clear", tab |-> t]
    /\ UNCHANGED <<now, cacheVars, fetchVars, contentVars, otherVars, subsBefore, lastBroadcast, adminLog, received>>

\* broadcastChange as a wrapper holds it when the render it was made in had
\* the given pendingChanges (part_005:571-591)
BroadcastChangeFrom(pending) ==
  [type |-> "UPDATE_SYNC_STATUS",
   payload |-> [has |-> {"lastSync", "pendingChanges"}, isOnline |-> TRUE,
                lastSync |-> now, pendingChanges |-> Max0(pending - 1)]]

\* an admin handler of a mounted tab: the actions it dispatched are reduced
\* in one render, whose effects follow
Admin(t, actions) ==
  /\ Mounted(t)
  /\ Len(adminLog) < MaxActions
  /\ Render(t, svc[t], Reduce(state[t], actions, now), events, storage)
  /\ adminLog' = Append(adminLog, [tab |-> t, prices |-> state[t].prices,
                                    quiet |-> \A u \in Tabs : events[u] = << >>])
  /\ calls' = {}
  /\ step' = [op |-> "admin", tab |-> t]
  /\ UNCHANGED <<now, cacheVars, fetchVars, contentVars, otherVars, subsBefore, lastBroadcast, appended,
                 sinceClear, received>>

Credentials ==
  {[username |-> "admin", password |-> "admin123"],
   [username |-> "admin", password |-> "guess"]}

\* login(username, password) (part_005:444-457); a rejected LOGIN returns the
\* state it was given, so nothing renders
Login ==
  \E t \in Tabs, cred \in Credentials :
    IF cred.username = "admin" /\ cred.password = "admin123"
    THEN Admin(t, << [type |-> "LOGIN", payload |-> cred],
                     AddNotificationAction("login", 0) >>)
    ELSE /\ Mounted(t)
         /\ Len(adminLog) < MaxActions
         /\ adminLog' = Append(adminLog, [tab |-> t, prices |-> state[t].prices,
                                           quiet |-> \A u \in Tabs : events[u] = << >>])
         /\ calls' = {}
         /\ step' = [op |-> "admin", tab |-> t]
         /\ UNCHANGED <<now, cacheVars, fetchVars, contentVars, otherVars, storage, svc, events, state,
                        subsBefore, lastBroadcast, appended, sinceClear, received>>

\* logout() (part_005:459-468)
Logout ==
  \E t \in Tabs :
    Admin(t, << [type |-> "LOGOUT"], AddNotificationAction("logout", 0) >>)

Names == {"nameA", "nameB"}

\* addDeliveryZone(zone) (part_005:482-492)
AddDeliveryZone ==
  \E t \in Tabs, name \in Names :
    Admin(t, << [type |-> "ADD_DELIVERY_ZONE", payload |-> [name |-> name]],
                AddNotificationAction("create", 0), BroadcastChangeAction >>)

\* updateDeliveryZone(zone) (part_005:494-504), for a zone of the list
UpdateDeliveryZone ==
  \E t \in Tabs, name \in Names :
    \E i \in 1..Len(state[t].deliveryZones) :
      Admin(t, << [type |-> "UPDATE_DELIVERY_ZONE",
                   payload |-> [state[t].deliveryZones[i] EXCEPT !.name = name]],
                  AddNotificationAction("update", 0), BroadcastChangeAction >>)

\* deleteDeliveryZone(id) (part_005:506-517), for the id of a zone of the list;
\* the callback is renewed with the list, so its broadcastChange is of a later
\* render than the first
DeleteDeliveryZone ==
  \E t \in Tabs :
    \E i \in 1..Len(state[t].deliveryZones) :
      Admin(t, << [type |-> "DELETE_DELIVERY_ZONE",
                   payload |-> state[t].deliveryZones[i].id],
                  AddNotificationAction("delete", 0),
                  BroadcastChangeFrom(state[t].syncStatus.pendingChanges) >>)

\* addNovel(novel) (part_005:519-529)
AddNovel ==
  \E t \in Tabs, name \in Names :
    Admin(t, << [type |-> "ADD_NOVEL", payload |-> [name |-> name]],
                AddNotificationAction("create", 0), BroadcastChangeAction >>)

\* updateNovel(novel) (part_005:531-541), for a novel of the list
UpdateNovel ==
  \E t \in Tabs, name \in Names :
    \E i \in 1..Len(state[t].novels) :
      Admin(t, << [type |-> "UPDATE_NOVEL",
                   payload |-> [state[t].novels[i] EXCEPT !.name = name]],
                  AddNotificationAction("update", 0), BroadcastChangeAction >>)

\* deleteNovel(id) (part_005:543-554), for the id of a novel of the list
DeleteNovel ==
  \E t \in Tabs :
    \E i \in 1..Len(state[t].novels) :
      Admin(t, << [type |-> "DELETE_NOVEL", payload |-> state[t].novels[i].id],
                  AddNotificationAction("delete", 0),
                  BroadcastChangeFrom(state[t].syncStatus.pendingChanges) >>)

\* two tabs and the admin actions on prices
NextTabs ==
  \/ Mount
  \/ UpdatePrices
  \/ DeliverStorage
  \/ PollTick
  \/ VisibilityChange
  \/ TickSync

SpecTabs == InitSync /\ [][NextTabs]_vars

\* the clock of two tabs that hand a document back and forth
TickEcho ==
  /\ now < MaxNowEcho
  /\ now' = now + 1
  /\ calls' = {}
  /\ step' = [op |-> "tick", tab |-> "none"]
  /\ UNCHANGED <<cacheVars, fetchVars, contentVars, otherVars, storage, svc, events, state, ghostVars>>

\* two tabs, storage events only, and time that passes between the deliveries
NextEcho ==
  \/ Mount
  \/ UpdatePrices
  \/ DeliverStorage
  \/ TickEcho

SpecEcho == InitSync /\ [][NextEcho]_vars

\* a tab of the application, a bare service that writes, and a window that
\* leaves garbage under the key
NextGarbage ==
  \/ Open
  \/ ConstructService
  \/ BroadcastDoc
  \/ CorruptStorage
  \/ DeliverStorage
  \/ PollTick
  \/ TickSync

SpecGarbage == InitSync /\ [][NextGarbage]_vars

\* one tab alone and every admin action on it
NextAdmin ==
  \/ Open
  \/ Login
  \/ Logout
  \/ UpdatePrices
  \/ AddDeliveryZone
  \/ UpdateDeliveryZone
  \/ DeleteDeliveryZone
  \/ AddNovel
  \/ UpdateNovel
  \/ DeleteNovel
  \/ TickSync

SpecAdmin == InitSync /\ [][NextAdmin]_vars

\* one tab alone, whose user adds notifications
NextNotif ==
  \/ Open
  \/ AddNotification
  \/ ClearNotifications
  \/ DestroyService

SpecNotif == InitSync /\ [][NextNotif]_vars

----------------------------------------------------------------------------
(* adminReducer on its own *)

\* ids are the millisecond an item was made in; two ids of items that are in
\* the lists, and one of no item
ListedIds == {1, 2}
ItemIds == ListedIds \cup {3}
Items ==
  {[id |-> i, name |-> "nameA", createdAt |-> i, updatedAt |-> i] : i \in ListedIds}
ItemLists == {<< >>} \cup {<<a>> : a \in Items} \cup {<<a, b>> : a, b \in Items}
Notes == {<< >>, <<[id |-> DecimalString(0), timestamp |-> 0, action |-> "update", message |-> 0]>>}

ReducerStates ==
  {[initialState(0) EXCEPT !.isAuthenticated = auth,
                           !.deliveryZones = zones, !.novels = novels,
                           !.notifications = notes,
                           !.syncStatus.pendingChanges = n] :
     auth \in BOOLEAN, zones \in ItemLists, novels \in ItemLists,
     notes \in Notes, n \in {0, MaxPending}}

\* the documents a tab can be handed: what JSON.parse makes of a stored text
SyncedDocs ==
  {Parse(Stringify(SyncData(
     [initialState(0) EXCEPT !.prices = p, !.deliveryZones = zones,
                             !.syncStatus = [isOnline |-> online, lastSync |-> 0,
                                             pendingChanges |-> n]], 0))) :
     p \in {RaisedPrices}, zones \in {<< >>, <<CHOOSE a \in Items : TRUE>>},
     online \in BOOLEAN, n \in {0, MaxPending}}

SyncActions == {[type |-> "SYNC_STATE", payload |-> d] : d \in SyncedDocs}
UpdateActions ==
  {[type |-> ty, payload |-> [id |-> i, name |-> "nameB", createdAt |-> 0,
                              updatedAt |-> 0]] :
     ty \in {"UPDATE_DELIVERY_ZONE", "UPDATE_NOVEL"}, i \in ItemIds}
DeleteActions ==
  {[type |-> ty, payload |-> i] :
     ty \in {"DELETE_DELIVERY_ZONE", "DELETE_NOVEL"}, i \in ItemIds}

ReducerTab == "P1"

InitReducer ==
  /\ now = 0
  /\ InitCacheVars
  /\ InitFetchVars
  /\ InitContentVars
  /\ InitOtherVars
  /\ storage = NoText
  /\ svc = [t \in Tabs |-> NoService]
  /\ events = [t \in Tabs |-> << >>]
  /\ state \in {[t \in Tabs |-> IF t = ReducerTab THEN st ELSE initialState(0)] :
                  st \in ReducerStates}
  /\ calls = {}
  /\ step = NoStep
  /\ subsBefore = [t \in Tabs |-> {}]
  /\ lastBroadcast = NoBroadcast
  /\ adminLog = << >>
  /\ appended = 0
  /\ sinceClear = 0
  /\ received = [t \in Tabs |-> NoText]

\* dispatch(action): the reducer makes the next state of the action
Dispatch(a) ==
  /\ state' = [state EXCEPT ![ReducerTab] = adminReducer(@, a, now)]
  /\ dispatched' = a
  /\ calls' = {}
  /\ step' = [op |-> "dispatch", tab |-> ReducerTab]
  /\ UNCHANGED <<now, cacheVars, fetchVars, contentVars, storage, svc, events,
                 ghostVars, snapshotVars, restVars>>

DispatchSync == \E a \in SyncActions : Dispatch(a)

\* the actions that count a pending change
DispatchUpdate ==
  /\ state[ReducerTab].syncStatus.pendingChanges < MaxPending
  /\ \E a \in UpdateActions : Dispatch(a)

DispatchDelete ==
  /\ state[ReducerTab].syncStatus.pendingChanges < MaxPending
  /\ \E a \in DeleteActions : Dispatch(a)

NextReducer == DispatchSync \/ DispatchUpdate \/ DispatchDelete \/ TickSync

SpecReducer == InitReducer /\ [][NextReducer]_vars

----------------------------------------------------------------------------
(* OptimizedContentSyncService: the queue of sync operations *)

ShouldPerformDailyUpdate(last, t) == last = NoDate \/ t - last >= DAILY_AGE
ShouldPerformWeeklyUpdate(last, t) == last = NoDate \/ t - last >= WEEKLY_AGE

\* the three fields a processQueue() call works on
QueueFields ==
  [syncQueue |-> syncQueue, isProcessingQueue |-> isProcessingQueue,
   drains |-> drains]

\* a processQueue that does not look at isProcessingQueue
ProcessQueueUnguarded(q) == q.syncQueue # << >>

\* processQueue() gets past its first line
ProcessQueueRuns(q) == ~q.isProcessingQueue /\ q.syncQueue # << >>

\* processQueue() up to its first await: it takes the flag, shifts the first
\* operation and calls it; caller is the sync that awaits this call, if any
ProcessQueue(q, caller) ==
  IF ProcessQueueRuns(q)
  THEN [syncQueue |-> Tail(q.syncQueue), isProcessingQueue |-> TRUE,
        drains |-> q.drains \cup {[pc |-> "op", op |-> Head(q.syncQueue),
                                   awaitedBy |-> caller]}]
  ELSE q

QueueSyncOperation(q, op) ==
  LET q1 == [q EXCEPT !.syncQueue = Append(@, op)]
  IN  IF ~q1.isProcessingQueue THEN ProcessQueue(q1, NoCaller) ELSE q1

RECURSIVE QueueAll(_, _)
QueueAll(q, ops) ==
  IF ops = << >> THEN q
  ELSE QueueAll(QueueSyncOperation(q, Head(ops)), Tail(ops))

\* the lines of performOptimizedSync after its await
SyncReturns(weekly, weeklyBefore) ==
  /\ lastDailyUpdate' = now
  /\ lastWeeklyUpdate' = IF weekly THEN now ELSE weeklyBefore
  /\ syncInProgress' = FALSE

\* performOptimizedSync(weekly), called when the two dates are as given: it
\* queues its operations and awaits processQueue(); when that call returns at
\* its first line the rest of the function follows in the same task
PerformOptimizedSync(weekly, dailyBefore, weeklyBefore) ==
  LET n == syncCount + 1
      names == DailyOperations \o (IF weekly THEN WeeklyOperations ELSE << >>)
      ops == [i \in 1..Len(names) |-> [sync |-> n, name |-> names[i]]]
      q1 == QueueAll(QueueFields, ops)
      q2 == ProcessQueue(q1, [sync |-> n, weekly |-> weekly])
  IN  /\ syncQueue' = q2.syncQueue
      /\ isProcessingQueue' = q2.isProcessingQueue
      /\ drains' = q2.drains
      /\ syncCount' = n
      /\ IF q2 = q1
         THEN SyncReturns(weekly, weeklyBefore)
         ELSE /\ syncInProgress' = TRUE
              /\ lastDailyUpdate' = dailyBefore
              /\ lastWeeklyUpdate' = weeklyBefore

\* the timer fires: checkAndSync()
CheckAndSync ==
  /\ ~syncInProgress
  /\ syncCount < MaxSyncs
  /\ \/ ShouldPerformDailyUpdate(lastDailyUpdate, now)
     \/ ShouldPerformWeeklyUpdate(lastWeeklyUpdate, now)
  /\ PerformOptimizedSync(ShouldPerformWeeklyUpdate(lastWeeklyUpdate, now),
                          lastDailyUpdate, lastWeeklyUpdate)
  /\ UNCHANGED <<now, cacheVars, fetchVars, syncVars, otherVars, lastSettled>>

\* forceRefresh(): it clears the caches, forgets the dates and syncs
ForceRefresh ==
  /\ syncCount < MaxSyncs
  /\ cache' = EmptyCache
  /\ PerformOptimizedSync(TRUE, NoDate, NoDate)
  /\ UNCHANGED <<now, fillCount, lastSet, cacheOp, fetchVars, syncVars, otherVars,
                 lastSettled>>

\* a loop that ends after one operation, whatever is left in the queue
ContinueStops(d) ==
  /\ drains' = drains \ {d}
  /\ isProcessingQueue' = FALSE
  /\ UNCHANGED syncQueue
  /\ IF d.awaitedBy = NoCaller
     THEN UNCHANGED <<syncInProgress, lastDailyUpdate, lastWeeklyUpdate>>
     ELSE SyncReturns(d.awaitedBy.weekly, lastWeeklyUpdate)

\* the loop of a processQueue() call comes back to its test
Continue(d) ==
  IF syncQueue # << >>
  THEN /\ drains' = (drains \ {d}) \cup {[d EXCEPT !.pc = "op", !.op = Head(syncQueue)]}
       /\ syncQueue' = Tail(syncQueue)
       /\ UNCHANGED <<isProcessingQueue, syncInProgress, lastDailyUpdate,
                      lastWeeklyUpdate>>
  ELSE /\ drains' = drains \ {d}
       /\ isProcessingQueue' = FALSE
       /\ UNCHANGED syncQueue
       /\ IF d.awaitedBy = NoCaller
          THEN UNCHANGED <<syncInProgress, lastDailyUpdate, lastWeeklyUpdate>>
          ELSE SyncReturns(d.awaitedBy.weekly, lastWeeklyUpdate)

\* the operation a loop awaits fulfils: the loop goes on to its 200 ms delay
OperationFulfils ==
  \E d \in drains :
    /\ d.pc = "op"
    /\ drains' = (drains \ {d}) \cup {[d EXCEPT !.pc = "delay"]}
    /\ lastSettled' = [op |-> d.op, outcome |-> "fulfilled"]
    /\ UNCHANGED <<now, cacheVars, fetchVars, syncVars, otherVars, syncQueue,
                   isProcessingQueue, syncInProgress, lastDailyUpdate,
                   lastWeeklyUpdate, syncCount>>

\* the operation a loop awaits rejects: the catch logs, the loop goes on
OperationRejects ==
  \E d \in drains :
    /\ d.pc = "op"
    /\ Continue(d)
    /\ lastSettled' = [op |-> d.op, outcome |-> "rejected"]
    /\ UNCHANGED <<now, cacheVars, fetchVars, syncVars, otherVars, syncCount>>

\* the delay between two operations is over
DelayElapses ==
  \E d \in drains :
    /\ d.pc = "delay"
    /\ Continue(d)
    /\ UNCHANGED <<now, cacheVars, fetchVars, syncVars, otherVars, syncCount, lastSettled>>

DayPasses ==
  /\ now < MaxDay
  /\ now' = now + 1
  /\ UNCHANGED <<cacheVars, fetchVars, syncVars, contentVars, otherVars>>

NextContent ==
  \/ CheckAndSync
  \/ ForceRefresh
  \/ OperationFulfils
  \/ OperationRejects
  \/ DelayElapses
  \/ DayPasses

SpecContent == InitSync /\ [][NextContent]_vars

\* every operation the queue runs settles, and the 200 ms timer fires
SpecContentFair ==
  /\ SpecContent
  /\ WF_vars(OperationFulfils \/ OperationRejects)
  /\ WF_vars(DelayElapses)

----------------------------------------------------------------------------
(* OptimizedContentSyncService: reading content through its snapshot *)

\* hours a snapshot of the class is used for (optimizedContentSync.ts:231, 286)
TRENDING_HOURS == 4
POPULAR_HOURS == 8
Limit(class) == IF class = "trending_day" THEN TRENDING_HOURS ELSE POPULAR_HOURS

\* a test of the snapshot that does not look at its version
UsableAnyVersion(snap, class, t) ==
  snap.kind = "json" /\ t - snap.lastUpdate < Limit(class)

\* the snapshot parses, is young enough and of the current version
Usable(snap, class, t) ==
  /\ snap.kind = "json"
  /\ t - snap.lastUpdate < Limit(class)
  /\ snap.version = VERSION

\* getTrendingContent(timeWindow) / getCachedOrFresh(key, fetchFn) up to the
\* return of the snapshot or to the await of the fresh fetch
ReadContent ==
  \E class \in Classes :
    /\ class \notin freshCalls
    /\ IF Usable(snapshots[class], class, now)
       THEN /\ returned' = [op |-> "read", class |-> class, from |-> "snapshot",
                            content |-> snapshots[class].content]
            /\ UNCHANGED freshCalls
       ELSE /\ returned' = [op |-> "read", class |-> class, from |-> "none",
                            content |-> NoContent]
            /\ freshCalls' = freshCalls \cup {class}
    /\ UNCHANGED <<now, cacheVars, fetchVars, syncVars, contentVars, restVars, dispatched,
                   snapshots>>

\* the fresh fetch succeeds: the snapshot is written and the content returned
FreshFulfils ==
  \E class \in freshCalls, c \in Contents :
    /\ snapshots' = [snapshots EXCEPT ![class] = Snapshot(c, now, VERSION)]
    /\ freshCalls' = freshCalls \ {class}
    /\ returned' = [op |-> "fulfil", class |-> class, from |-> "fresh", content |-> c]
    /\ UNCHANGED <<now, cacheVars, fetchVars, syncVars, contentVars, restVars, dispatched>>

\* the fresh fetch fails: syncTrendingContent catches and returns [],
\* getCachedOrFresh rejects; the snapshot stays
FreshRejects ==
  \E class \in freshCalls :
    /\ freshCalls' = freshCalls \ {class}
    /\ returned' = [op |-> "reject", class |-> class,
                    from |-> IF class = "trending_day" THEN "empty" ELSE "error",
                    content |-> NoContent]
    /\ UNCHANGED <<now, cacheVars, fetchVars, syncVars, contentVars, restVars, dispatched,
                   snapshots>>

HourPasses ==
  /\ now < MaxHour
  /\ now' = now + 1
  /\ UNCHANGED <<cacheVars, fetchVars, syncVars, contentVars, otherVars>>

InitSnapshot ==
  /\ now = 0
  /\ InitCacheVars
  /\ InitFetchVars
  /\ InitSyncVars
  /\ InitContentVars
  /\ dispatched = NoAction
  /\ InitSnapshotVars
  /\ InitRestVars

NextSnapshot == ReadContent \/ FreshFulfils \/ FreshRejects \/ HourPasses

SpecSnapshot == InitSnapshot /\ [][NextSnapshot]_vars

----------------------------------------------------------------------------
(* The cart of CartProviderClone: cartReducerClone on its own *)

CartIds == {1, 2}
CartTypes == {"movie", "tv"}

\* an item as addItem() passes it on: paid in cash, first season selected
NewItem(id, type) ==
  [id |-> id, type |-> type, selectedSeasons |-> <<1>>, paymentType |-> "cash"]

NewItems == {NewItem(id, type) : id \in CartIds, type \in CartTypes}

\* the carts LOAD_CART is given: what an earlier session saved
SavedCarts ==
  {<< >>} \cup {<<a>> : a \in NewItems}
          \cup {<<NewItem(1, "movie"), NewItem(2, "tv")>>}

RECURSIVE MapItems(_, _, _, _)
\* items.map(item => item.id === id ? { ...item, [field]: value } : item)
MapItems(items, id, field, value) ==
  IF items = << >> THEN << >>
  ELSE <<IF Head(items).id = id
         THEN [Head(items) EXCEPT ![field] = value]
         ELSE Head(items)>> \o MapItems(Tail(items), id, field, value)

\* items.filter(item => item.id !== id)
FilterItems(items, id) == SelectSeq(items, LAMBDA item : item.id # id)

cartReducerClone(st, action) ==
  CASE action.type = "ADD_ITEM" ->
         IF \E i \in 1..Len(st.items) :
               st.items[i].id = action.payload.id /\ st.items[i].type = action.payload.type
         THEN st
         ELSE [st EXCEPT !.items = Append(@, action.payload), !.total = @ + 1]
    [] action.type = "UPDATE_SEASONS" ->
         [st EXCEPT !.items = MapItems(@, action.payload.id, "selectedSeasons",
                                       action.payload.seasons)]
    [] action.type = "UPDATE_PAYMENT_TYPE" ->
         [st EXCEPT !.items = MapItems(@, action.payload.id, "paymentType",
                                       action.payload.paymentType)]
    [] action.type = "REMOVE_ITEM" ->
         [st EXCEPT !.items = FilterItems(@, action.payload), !.total = @ - 1]
    [] action.type = "CLEAR_CART" -> [items |-> << >>, total |-> 0]
    [] action.type = "LOAD_CART" ->
         [items |-> action.payload, total |-> Len(action.payload)]
    [] OTHER -> st

\* a dispatch to the reducer of the cart
CartDispatch(action) ==
  /\ cart' = cartReducerClone(cart, action)
  /\ UNCHANGED <<now, cacheVars, fetchVars, syncVars, contentVars, dispatched,
                 snapshotVars, realtimeVars>>

AddItem ==
  \E item \in NewItems :
    /\ cart.total < MaxTotal
    /\ CartDispatch([type |-> "ADD_ITEM", payload |-> item])

\* removeItem(id) dispatches whether or not the cart holds the id
RemoveItem ==
  \E id \in CartIds :
    /\ cart.total > -MaxDebt
    /\ CartDispatch([type |-> "REMOVE_ITEM", payload |-> id])

UpdateSeasons ==
  \E id \in CartIds :
    CartDispatch([type |-> "UPDATE_SEASONS", payload |-> [id |-> id, seasons |-> <<1, 2>>]])

UpdatePaymentType ==
  \E id \in CartIds, paymentType \in {"cash", "transfer"} :
    CartDispatch([type |-> "UPDATE_PAYMENT_TYPE",
                  payload |-> [id |-> id, paymentType |-> paymentType]])

ClearCart == CartDispatch([type |-> "CLEAR_CART"])

LoadCart ==
  \E items \in SavedCarts : CartDispatch([type |-> "LOAD_CART", payload |-> items])

NextCart ==
  \/ AddItem
  \/ RemoveItem
  \/ UpdateSeasons
  \/ UpdatePaymentType
  \/ ClearCart
  \/ LoadCart

SpecCart == InitSync /\ [][NextCart]_vars

----------------------------------------------------------------------------
(* RealtimeSyncService: the channels it opens at the realtime client *)

\* the channels of the client that are subscribed for a table
LiveFor(table) == {c \in live : c.table = table}

\* subscribeTo<Table>(callback): supabase.channel(name).on(..).subscribe(), then
\* channels.set(table, channel). Where the client hands out the channel that
\* already has the name, subscribe() on it either throws, and the method with
\* it, or returns the channel
SubscribeTo ==
  \E table \in Tables, throws \in BOOLEAN :
    /\ created < MaxChannels
    /\ IF reuses /\ LiveFor(table) # {}
       THEN /\ channels' = IF throws THEN channels
                           ELSE [channels EXCEPT ![table] =
                                   (CHOOSE c \in LiveFor(table) : TRUE).id]
            /\ UNCHANGED <<live, created>>
       ELSE /\ created' = created + 1
            /\ live' = live \cup {[id |-> created + 1, table |-> table]}
            /\ channels' = [channels EXCEPT ![table] = created + 1]
    /\ UNCHANGED <<now, cacheVars, fetchVars, syncVars, contentVars, dispatched,
                   snapshotVars, cart, reuses>>

\* a function that subscribeTo<Table> returned is called: unsubscribe(table)
UnsubscribeFrom ==
  \E table \in Tables :
    /\ channels[table] # NoChannel
    /\ live' = {c \in live : c.id # channels[table]}
    /\ channels' = [channels EXCEPT ![table] = NoChannel]
    /\ UNCHANGED <<now, cacheVars, fetchVars, syncVars, contentVars, dispatched,
                   snapshotVars, cart, created, reuses>>

unsubscribeAll ==
  /\ live' = {c \in live : \A table \in Tables : c.id # channels[table]}
  /\ channels' = [table \in Tables |-> NoChannel]
  /\ UNCHANGED <<now, cacheVars, fetchVars, syncVars, contentVars, dispatched,
                 snapshotVars, cart, created, reuses>>

InitChannels ==
  /\ now = 0
  /\ InitCacheVars
  /\ InitFetchVars
  /\ InitSyncVars
  /\ InitContentVars
  /\ dispatched = NoAction
  /\ snapshots = [c \in Classes |-> NoSnapshot]
  /\ freshCalls = {}
  /\ returned = NoReturn
  /\ cart = EmptyCart
  /\ InitRealtime
  /\ reuses \in BOOLEAN

NextChannels == SubscribeTo \/ UnsubscribeFrom \/ unsubscribeAll

SpecChannels == InitChannels /\ [][NextChannels]_vars

----------------------------------------------------------------------------
(* Properties of the cache *)

GetOfSetKey ==
  /\ cacheOp.kind = "get"
  /\ lastSet[cacheOp.key].set

\* C3 as stated: after set(k, v, t) with no later set or clear, get(k) returns
\* v at every age strictly below t and absent at every age >= t.
C3_Original ==
  GetOfSetKey =>
    LET s == lastSet[cacheOp.key]
        age == now - s.at
    IN  /\ (age < s.ttl => cacheOp.value = s.data)
        /\ (age >= s.ttl => cacheOp.value = Null)

\* C3 amended: after set(k, v, t) with no later set or clear, get(k) returns v
\* at every age up to and including t, and absent at every age above t.
C3_TtlBoundary ==
  GetOfSetKey =>
    LET s == lastSet[cacheOp.key]
        age == now - s.at
    IN  /\ (age <= s.ttl => cacheOp.value = s.data)
        /\ (age > s.ttl => cacheOp.value = Null)

\* a get at the instant the age equals a positive ttl returns the value
C3_Witness ==
  /\ GetOfSetKey
  /\ lastSet[cacheOp.key].ttl > 0
  /\ now - lastSet[cacheOp.key].at = lastSet[cacheOp.key].ttl
  /\ cacheOp.value = lastSet[cacheOp.key].data

\* C9: immediately after a set that takes the map above 100 entries, every
\* entry older than its own ttl is gone and every other entry (the one just
\* set included) is present with its value unchanged.
C9_Sweep ==
  [][ (cacheOp'.kind = "set" /\ cacheOp'.size > CLEANUP_SIZE) =>
        \A x \in DOMAIN cache \cup {cacheOp'.key} :
          LET e == IF x = cacheOp'.key
                   THEN [data |-> cacheOp'.value, timestamp |-> now, ttl |-> cacheOp'.ttl]
                   ELSE cache[x]
          IN  IF now - e.timestamp > e.ttl
              THEN x \notin DOMAIN cache'
              ELSE x \in DOMAIN cache' /\ cache'[x] = e ]_vars

\* a set took the map above 100 entries and the sweep removed some but not all
C9_Witness ==
  /\ cacheOp.kind = "set"
  /\ cacheOp.size > CLEANUP_SIZE
  /\ Cardinality(DOMAIN cache) < cacheOp.size
  /\ Cardinality(DOMAIN cache) > 1

----------------------------------------------------------------------------
(* Properties of the request coalescer *)

\* caller c enters fetchWithCache in this step and reaches its await
CallAwaits(c) ==
  /\ CanCall(c)
  /\ callers'[c].pc # "idle"
  /\ callers'[c].key \in FetchKeys

\* C1: a call for a key made while a fetch for that key is pending starts no
\* provider fetch and is handed the pending promise, so at most one fetch per
\* key is in flight; and every call handed a promise returns that promise's
\* outcome, the same value or the same rejection for all of them.
C1_Coalescing ==
  [][ /\ \A c \in Callers :
           (CallAwaits(c) /\ PendingFor(Endpoint(callers'[c].key)) # {}) =>
             /\ promises' = promises
             /\ callers'[c].promise \in PendingFor(Endpoint(callers'[c].key))
      /\ \A k \in FetchKeys : Cardinality(PendingFor(Endpoint(k))') <= 1
      /\ (delivered'.promise # 0 /\ delivered'.key \in FetchKeys) =>
           /\ promises'[delivered'.promise].state # "pending"
           /\ delivered'.result = OutcomeIn(promises', delivered'.promise) ]_vars

\* a coalesced caller has received the outcome of the only fetch ever started
\* for its key, after the initiating caller received it
C1_Witness ==
  /\ delivered.promise # 0
  /\ delivered.key \in FetchKeys
  /\ delivered.caller # promises[delivered.promise].owner
  /\ delivered.result = Outcome(delivered.promise)
  /\ Cardinality(FetchesOf(Endpoint(delivered.key))) = 1

\* C2: while the latest fetch for a key is a failed one the key is not in the
\* cache, and a call for the key made then is neither answered from the cache
\* nor handed the failed promise: it starts a new provider fetch.
C2_NoNegativeCaching ==
  [][ \A k \in FetchKeys :
        /\ LastFailed(Endpoint(k))' => k \notin DOMAIN cache'
        /\ LastFailed(Endpoint(k)) =>
             /\ \A c \in Callers :
                  (CallAwaits(c) /\ callers'[c].key = k) =>
                    /\ callers'[c].pc = "initiator"
                    /\ Len(promises') = Len(promises) + 1
                    /\ promises'[callers'[c].promise].state = "pending"
             /\ ~(delivered' # delivered /\ delivered'.key = k /\ delivered'.promise = 0) ]_vars

\* a caller is the initiator of a new fetch for a key whose earlier fetch failed
C2_Witness ==
  \E c \in Callers :
    /\ callers[c].pc = "initiator"
    /\ \E p \in FetchesOf(Endpoint(callers[c].key)) :
         p < callers[c].promise /\ promises[p].state = "rejected"

\* C10: at no time are two provider fetches in flight on behalf of the same
\* cache key, whichever public method the concurrent calls went through.
C10_SingleFetchPerKey ==
  \A p, q \in PromiseIds :
    (Pending(p) /\ Pending(q) /\
     callers[promises[p].owner].key = callers[promises[q].owner].key) => p = q

----------------------------------------------------------------------------
(* Properties of the broadcaster *)

\* the text the latest writing broadcast(doc) stored
BroadcastText == Stringify(SyncData(lastBroadcast.doc, lastBroadcast.time))

\* a poll tick of the live instance P2 while the stored text is the one P1's
\* latest broadcast(doc) wrote and P2 has not recorded it yet
PollAfterBroadcast ==
  /\ lastBroadcast.tab = "P1"
  /\ storage = BroadcastText
  /\ svc["P2"].syncInterval
  /\ ~svc["P2"].isDestroyed
  /\ svc["P2"].lastKnownState # storage
  /\ step'.op = "poll"
  /\ step'.tab = "P2"

\* C4 as stated: at P2's poll tick after P1's broadcast(doc), every subscriber
\* of P2 is invoked with a value equal to doc
C4_Original ==
  [][PollAfterBroadcast =>
       \A cb \in svc["P2"].listeners :
          [tab |-> "P2", cb |-> cb, data |-> lastBroadcast.doc] \in calls']_vars

\* C4: if P1's broadcast(doc) wrote the key, then at the next poll tick of the
\* live instance P2 that finds this text still stored and not yet recorded by
\* P2, the invocations made are one per subscriber of P2, each with doc
\* extended by the timestamp and version that broadcast added, and P2 records
\* the stored text as its last known one
C4_PollDelivers ==
  [][PollAfterBroadcast =>
       /\ calls' = {[tab |-> "P2", cb |-> cb,
                     data |-> SyncData(lastBroadcast.doc, lastBroadcast.time)] :
                       cb \in svc["P2"].listeners}
       /\ svc'["P2"].lastKnownState = storage]_vars

C4_Witness ==
  /\ step = [op |-> "poll", tab |-> "P2"]
  /\ lastBroadcast.tab = "P1"
  /\ storage = BroadcastText
  /\ events["P2"] = << >>
  /\ \E c \in calls : c.tab = "P2" /\ c.data = Parse(BroadcastText)

\* C6: no step invokes a callback of an instance that was subscribed to it when
\* destroy() ran on it, whatever the trigger
C6_SilentAfterDestroy == \A c \in calls : c.cb \notin subsBefore[c.tab]

C6_Witness ==
  /\ step.op \in {"storage", "visible"}
  /\ subsBefore[step.tab] # {}
  /\ svc[step.tab].isDestroyed
  /\ storage # NoText
  /\ calls = {}

----------------------------------------------------------------------------
(* Properties of the tabs *)

\* the fields of a document that the admin edits
Content(doc) ==
  <<doc.isAuthenticated, doc.prices, doc.deliveryZones, doc.novels, doc.notifications>>

\* P1 set prices while no storage event was under way, and P2 set other prices
\* afterwards; these are all the admin actions of the run
TwoWrites ==
  /\ Len(adminLog) = MaxActions
  /\ adminLog[1].tab = "P1"
  /\ adminLog[1].quiet
  /\ adminLog[2].tab = "P2"
  /\ adminLog[2].prices # adminLog[1].prices

\* C5: after P1 has broadcast docA and P2 has afterwards broadcast docB, the
\* stored document never holds the prices of docA again, whatever the order
\* in which storage events and poll ticks arrive
C5_EarlierDoesNotComeBack ==
  TwoWrites => Parse(storage).prices # adminLog[1].prices

\* every tab is open and its state has the content of the stored document
InSync ==
  /\ storage # NoText
  /\ \A t \in Tabs : Mounted(t) /\ Content(state[t]) = Content(Parse(storage))

\* C8: with two tabs open, once every tab's state has the content of the stored
\* document, it keeps it as long as no admin action is taken
C8_StaysEqual ==
  [][(InSync /\ step'.op \notin {"admin", "mount"}) => InSync']_vars

----------------------------------------------------------------------------
(* Properties of the notifications *)

\* the ordinals of the list go down from its head
NewestFirst(list) ==
  \A i \in 1..(Len(list) - 1) : list[i].message > list[i + 1].message

\* C7: every state holds at most 100 notifications, newest first; after n
\* additions in a row to a tab's list, the list is the latest min(n, 100) of
\* them, newest first, so 150 additions in a row leave exactly the 100 most
\* recent
C7_NotificationCap ==
  /\ \A t \in Tabs :
       /\ Len(state[t].notifications) <= NOTIFICATION_CAP
       /\ NewestFirst(state[t].notifications)
  /\ \A t \in Appenders :
       /\ Len(state[t].notifications) = Min(sinceClear, NOTIFICATION_CAP)
       /\ \A i \in 1..Min(sinceClear, NOTIFICATION_CAP) :
             state[t].notifications[i].message = appended - i + 1

C7_Witness ==
  /\ step.op = "add"
  /\ sinceClear = MaxAppends
  /\ Len(state[step.tab].notifications) = NOTIFICATION_CAP
  /\ state[step.tab].notifications[1].message = MaxAppends
  /\ state[step.tab].notifications[NOTIFICATION_CAP].message
       = MaxAppends - NOTIFICATION_CAP + 1

----------------------------------------------------------------------------
(* Properties of the content service: failures *)

\* the provider fetch p fails in this step
Fails(p) == Pending(p) /\ promises'[p].state = "rejected"

\* C11: when a provider fetch fails, the public call that awaited it rejects
\* to its caller with the error, and the cache is left without the key
C11_FailurePropagates ==
  [][\A p \in PromiseIds :
       Fails(p) =>
         /\ delivered'.caller = promises[p].owner
         /\ delivered'.result = Rejected(promises'[p].value)
         /\ callers[promises[p].owner].key \notin DOMAIN cache']_vars

----------------------------------------------------------------------------
(* Properties of CacheManager.get *)

\* C12: get(k) returns the stored value exactly when an entry for k exists and
\* now - storedAt <= ttl, leaving the map alone; otherwise it returns absent,
\* and the map afterwards is the map before without k
C12_GetValidity ==
  [][cacheOp'.kind = "get" =>
       LET k == cacheOp'.key
       IN  IF k \in DOMAIN cache /\ now - cache[k].timestamp <= cache[k].ttl
           THEN cacheOp'.value = cache[k].data /\ cache' = cache
           ELSE /\ cacheOp'.value = Null
                /\ DOMAIN cache' = DOMAIN cache \ {k}
                /\ \A x \in DOMAIN cache' : cache'[x] = cache[x]]_vars

\* a get has found its key stale, answered absent and removed the entry
C12_Witness ==
  /\ cacheOp.kind = "get"
  /\ cacheOp.value = Null
  /\ lastSet[cacheOp.key].set
  /\ now - lastSet[cacheOp.key].at > lastSet[cacheOp.key].ttl
  /\ cacheOp.key \notin DOMAIN cache
  /\ cache # EmptyCache


----------------------------------------------------------------------------
(* Properties of the admin state *)

DistinctIds(list) ==
  \A i, j \in 1..Len(list) : i # j => list[i].id # list[j].id

\* C13: in every reachable state the delivery zones have pairwise distinct
\* ids, and so have the novels.
C13_DistinctIds ==
  \A t \in Tabs :
    DistinctIds(state[t].deliveryZones) /\ DistinctIds(state[t].novels)

\* C14: every mutating admin action, once fully applied, has added exactly one
\* notification and raised pendingChanges by exactly one.
C14_OneNotificationOnePending ==
  [][\A t \in Tabs :
       step'.op = "admin" /\ step'.tab = t =>
         /\ Len(state'[t].notifications) = Len(state[t].notifications) + 1
         /\ state'[t].syncStatus.pendingChanges
              = state[t].syncStatus.pendingChanges + 1]_vars

----------------------------------------------------------------------------
(* Properties of destroy() *)

\* C15: a destroyed instance is inert for good: its timer is cancelled, its
\* storage listener and its visibility listener are both unregistered, it has
\* no subscriber, and no later call or event changes the instance or the store.
C15_DestroyedIsInert ==
  \A t \in Tabs :
    svc[t].isDestroyed =>
      /\ ~svc[t].syncInterval
      /\ ~svc[t].storageListener
      /\ ~svc[t].visibilityListener
      /\ svc[t].listeners = {}

----------------------------------------------------------------------------
(* Properties of a persisted value that cannot be parsed *)

\* the value a step of the service took in: the stored text for the timer, the
\* new value of the event for a storage event
TakenIn(t) == IF step'.op = "storage" THEN Head(events[t]) ELSE storage

Unparsable(text) == text # NoText /\ ~Parses(text)

\* C16: a check or a storage event that takes in an unparsable value invokes
\* no subscriber and leaves the state of the tab as it was; a later valid
\* value, which differs from what the service knew last, is handed to every
\* subscriber.
C16_GarbageDiscarded ==
  [][\A t \in Tabs :
       step'.tab = t /\ step'.op \in {"poll", "storage"} =>
         /\ Unparsable(TakenIn(t)) => calls' = {} /\ state' = state
         /\ ( /\ Parses(TakenIn(t))
              /\ ~svc[t].isDestroyed
              /\ Stringify(Parse(TakenIn(t))) # svc[t].lastKnownState )
            => calls' = Made(t, NotifyListeners(svc[t], Parse(TakenIn(t))))]_vars

\* the timer has found garbage under the key while the tab held prices it was
\* given by another window: its subscriber was not invoked, its prices stay
C16_Witness ==
  /\ step = [op |-> "poll", tab |-> "P1"]
  /\ Mounted("P1")
  /\ svc["P1"].lastKnownState = Truncated
  /\ storage = Truncated
  /\ calls = {}
  /\ state["P1"].prices = RaisedPrices

----------------------------------------------------------------------------
(* Properties of the queue of sync operations *)

Executing == {d \in drains : d.pc = "op"}

\* C17: at no moment are two queued operations executing, also when a second
\* sync queues operations while the queue is being drained; and when an
\* operation rejects, the operation queued after it is the next to run.
C17_OneAtATime ==
  [][/\ Cardinality(Executing') <= 1
     /\ ( /\ lastSettled' # lastSettled
          /\ lastSettled'.outcome = "rejected"
          /\ syncQueue # << >> )
        => /\ \E d \in Executing' : d.op = Head(syncQueue)
           /\ syncQueue' = Tail(syncQueue)]_vars

\* an operation of the first sync has rejected, the next one is executing, and
\* operations of a second sync, queued during the drain, wait behind it
C17_Witness ==
  /\ lastSettled.outcome = "rejected"
  /\ lastSettled.op.sync = 1
  /\ \E d \in Executing : d.op.sync = 1
  /\ \E i \in 1..Len(syncQueue) : syncQueue[i].sync = 2

----------------------------------------------------------------------------
(* Properties of the in-flight map *)

\* the calls that started a fetch through fetchWithCache and await it
Initiators == {c \in Callers : callers[c].pc = "initiator"}

\* C18: the in-flight map holds an entry for a key exactly while a fetch that
\* fetchWithCache started for the key is pending: the entry is made when the
\* fetch starts on a miss and is gone once the fetch has settled, whether it
\* succeeded or failed.
C18_InFlightWhilePending ==
  /\ \A k \in DOMAIN requestQueue :
       /\ requestQueue[k] \in PromiseIds
       /\ Pending(requestQueue[k])
       /\ promises[requestQueue[k]].endpoint = Endpoint(k)
       /\ promises[requestQueue[k]].owner \in Initiators
       /\ callers[promises[requestQueue[k]].owner].key = k
  /\ \A c \in Initiators :
       /\ Pending(callers[c].promise)
       /\ callers[c].key \in DOMAIN requestQueue
       /\ requestQueue[callers[c].key] = callers[c].promise

\* a fetch of the key has failed and its entry is gone; a later miss has
\* started a second fetch, which is pending and has the entry
C18_Witness ==
  \E k \in FetchKeys :
    /\ k \in DOMAIN requestQueue
    /\ requestQueue[k] = 2
    /\ promises[1].endpoint = Endpoint(k)
    /\ promises[1].state = "rejected"

----------------------------------------------------------------------------
(* Properties of a fetch that succeeds or fails *)

\* the step returns the value of a fetch to the call that started it or to a
\* call that waited for it
ReturnsFetched(c) ==
  /\ callers[c].pc \in {"initiator", "waiter"}
  /\ callers'[c].pc = "idle"
  /\ delivered'.caller = c
  /\ delivered'.result.kind = "value"

\* C19: when a fetch has succeeded, its result is in the cache before the call
\* that started it or a call that waited for it returns the result, so that a
\* get of the key right after the return is a hit with that result.
C19_CachedBeforeObserved ==
  [][\A c \in Callers :
       ReturnsFetched(c) =>
         CacheGet(cache', callers[c].key, now').value = delivered'.result.value]_vars

\* a call that waited for the fetch of another call has returned its value,
\* and the value is in the cache
C19_Witness ==
  /\ delivered.caller # 0
  /\ delivered.promise # 0
  /\ promises[delivered.promise].owner # delivered.caller
  /\ delivered.result.kind = "value"
  /\ delivered.key \in DOMAIN cache
  /\ cache[delivered.key].data = delivered.result.value

\* the step is the entry of a fetchWithCache call that starts a fetch
StartsFetch(c) == callers[c].pc = "idle" /\ callers'[c].pc = "initiator"

\* the step is the failure of the fetch the call started
FetchFailsFor(c) == callers[c].pc = "initiator" /\ Fails(callers[c].promise)

\* C20 as stated: a fetchWithCache call whose fetch fails leaves the cache map
\* exactly as it was before the call, from its entry to its rejection.
C20_Original ==
  [][\A c \in Callers : StartsFetch(c) \/ FetchFailsFor(c) => cache' = cache]_vars

\* C20, amended: a fetchWithCache call whose fetch fails adds no entry and
\* alters none; the one change it can make is at its entry, where the lookup
\* removes the entry of its own key when that entry has expired.
C20_FailureAddsNothing ==
  [][\A c \in Callers :
       /\ FetchFailsFor(c) => cache' = cache
       /\ StartsFetch(c) =>
            LET k == callers'[c].key
            IN  /\ DOMAIN cache' = DOMAIN cache \ {k}
                /\ \A x \in DOMAIN cache' : cache'[x] = cache[x]
                /\ k \in DOMAIN cache => IsStale(cache[k], now)]_vars

\* the first fetch of the key was cached, the entry expired, the lookup of a
\* second call removed it and the fetch of that call has failed
C20_Witness ==
  /\ Len(promises) = 2
  /\ promises[1].state = "fulfilled"
  /\ promises[2].state = "rejected"
  /\ promises[2].endpoint = promises[1].endpoint
  /\ delivered.promise = 2
  /\ delivered.result.kind = "error"
  /\ delivered.key \notin DOMAIN cache
  /\ now > SEARCH_TTL

----------------------------------------------------------------------------
(* Properties of the delivery of a persisted value *)

\* C21: for one persisted value a subscriber is called at most once: the
\* callback of AdminProvider is not given the document it was given the time
\* before, whether a storage event, the timer or a visibility change observes
\* the value.
C21_AtMostOnce ==
  [][\A c \in calls' :
       c.cb = Provider => Stringify(c.data) # received[c.tab]]_vars

----------------------------------------------------------------------------
(* Properties of adminReducer *)

Before == state[ReducerTab]
After == state'[ReducerTab]
Dispatches(types) == step'.op = "dispatch" /\ dispatched'.type \in types

\* C22: SYNC_STATE replaces the local fields with those of the payload, sets
\* pendingChanges to 0 and lastSync to the current time, whatever
\* pendingChanges was before and whatever syncStatus the payload carries.
C22_SyncStateResets ==
  [][Dispatches({"SYNC_STATE"}) =>
       /\ After.isAuthenticated = dispatched'.payload.isAuthenticated
       /\ After.prices = dispatched'.payload.prices
       /\ After.deliveryZones = dispatched'.payload.deliveryZones
       /\ After.novels = dispatched'.payload.novels
       /\ After.notifications = dispatched'.payload.notifications
       /\ After.syncStatus.pendingChanges = 0
       /\ After.syncStatus.lastSync = now]_vars

\* a document with pending changes of its own has been applied at a later
\* time: the state has none and its lastSync is that time
C22_Witness ==
  /\ step.op = "dispatch"
  /\ dispatched.type = "SYNC_STATE"
  /\ dispatched.payload.syncStatus.pendingChanges = MaxPending
  /\ dispatched.payload.syncStatus.lastSync # now
  /\ state[ReducerTab].syncStatus.pendingChanges = 0
  /\ state[ReducerTab].syncStatus.lastSync = now
  /\ state[ReducerTab].prices = dispatched.payload.prices

\* the list an action is about, and the other one
OwnList(st, type) ==
  IF type \in {"UPDATE_DELIVERY_ZONE", "DELETE_DELIVERY_ZONE"} THEN st.deliveryZones
  ELSE st.novels
OtherList(st, type) ==
  IF type \in {"UPDATE_DELIVERY_ZONE", "DELETE_DELIVERY_ZONE"} THEN st.novels
  ELSE st.deliveryZones

\* the entries of a list whose id is not the given one, in their order
RECURSIVE Others(_, _)
Others(list, id) ==
  IF list = << >> THEN << >>
  ELSE IF Head(list).id = id THEN Others(Tail(list), id)
  ELSE <<Head(list)>> \o Others(Tail(list), id)

\* C30: UPDATE_DELIVERY_ZONE and UPDATE_NOVEL keep the length of their list
\* and every entry whose id is not the payload's; DELETE_DELIVERY_ZONE and
\* DELETE_NOVEL remove exactly the entries of the given id; none of the four
\* changes prices, notifications, isAuthenticated or the other list.
C30_UpdateDeleteFrame ==
  [][LET type == dispatched'.type
         old == OwnList(Before, type)
         new == OwnList(After, type)
     IN  /\ Dispatches({"UPDATE_DELIVERY_ZONE", "UPDATE_NOVEL"}) =>
              /\ Len(new) = Len(old)
              /\ \A i \in 1..Len(old) :
                   old[i].id # dispatched'.payload.id => new[i] = old[i]
         /\ Dispatches({"DELETE_DELIVERY_ZONE", "DELETE_NOVEL"}) =>
              new = Others(old, dispatched'.payload)
         /\ Dispatches({"UPDATE_DELIVERY_ZONE", "UPDATE_NOVEL",
                        "DELETE_DELIVERY_ZONE", "DELETE_NOVEL"}) =>
              /\ After.prices = Before.prices
              /\ After.notifications = Before.notifications
              /\ After.isAuthenticated = Before.isAuthenticated
              /\ OtherList(After, type) = OtherList(Before, type)]_vars

\* a delete has taken the first of two zones and left the second, with a
\* notification, a novel and the login in the state
C30_Witness ==
  /\ step.op = "dispatch"
  /\ dispatched.type = "DELETE_DELIVERY_ZONE"
  /\ Len(state[ReducerTab].deliveryZones) = 1
  /\ state[ReducerTab].deliveryZones[1].id # dispatched.payload
  /\ dispatched.payload \in ListedIds
  /\ state[ReducerTab].novels # << >>
  /\ state[ReducerTab].notifications # << >>
  /\ state[ReducerTab].isAuthenticated

----------------------------------------------------------------------------
(* Properties of the content snapshots *)

\* C23: a snapshot is returned only when its version is the current one and
\* its age is below the limit of its class; in every other case, an
\* unparsable snapshot included, a fresh fetch is made, and the result of a
\* successful fetch overwrites the snapshot.
C23_SnapshotValidity ==
  [][LET class == returned'.class
         snap == snapshots[class]
         valid == /\ snap.kind = "json"
                  /\ snap.version = "2.0.0"
                  /\ now - snap.lastUpdate < (IF class = "trending_day" THEN 4 ELSE 8)
     IN  /\ returned'.op = "read" /\ now' = now =>
              IF valid
              THEN /\ returned'.from = "snapshot"
                   /\ returned'.content = snap.content
                   /\ UNCHANGED <<snapshots, freshCalls>>
              ELSE /\ returned'.from = "none"
                   /\ class \in freshCalls'
         /\ returned'.op = "fulfil" /\ now' = now =>
              /\ snapshots'[class].kind = "json"
              /\ snapshots'[class].content = returned'.content
              /\ snapshots'[class].lastUpdate = now
              /\ snapshots'[class].version = "2.0.0"]_vars

\* a snapshot of the current version that has reached the limit of its class
\* was not returned: a fresh fetch was made and has overwritten it
C23_Witness ==
  /\ returned.op = "fulfil"
  /\ returned.class = "popular_movies"
  /\ now = POPULAR_HOURS
  /\ snapshots["popular_movies"] = Snapshot("contentB", now, VERSION)
  /\ snapshots["trending_day"].version = "1.0.0"

\* ---- Properties of the content synchronisation, continued ----

\* C25: whenever an operation of the queue is executing or still waits in the
\* queue, syncInProgress is true: the sync that queued it has not finished
C25_InProgressWhileExecuting ==
  (Executing # {} \/ syncQueue # << >>) => syncInProgress

\* ---- Properties of the broadcaster, continued ----

\* C27: while the stored text is the one P1's latest broadcast(doc) wrote, no
\* step of P1's instance, be it a broadcast, a poll tick or a visibility
\* change, invokes a subscriber of P1 with the document of that text
C27_NoOwnEcho ==
  [][(/\ lastBroadcast'.tab = "P1"
      /\ storage' = Stringify(SyncData(lastBroadcast'.doc, lastBroadcast'.time))
      /\ step'.tab = "P1"
      /\ step'.op \in {"broadcast", "poll", "visible"})
     => \A c \in calls' : ~(c.tab = "P1" /\ Stringify(c.data) = storage')]_vars


\* the operations a run can queue
AllOperations ==
  {[sync |-> n, name |-> DailyOperations[i]] : n \in 1..MaxSyncs, i \in 1..Len(DailyOperations)}
    \cup {[sync |-> n, name |-> WeeklyOperations[i]] : n \in 1..MaxSyncs, i \in 1..Len(WeeklyOperations)}

InQueue(o) == \E i \in 1..Len(syncQueue) : syncQueue[i] = o

\* the operations that begin to execute in a step, in a sequence
Started == 
  IF Executing' \ Executing = {} THEN << >>
  ELSE <<(CHOOSE d \in Executing' \ Executing : TRUE).op>>

\* a step takes operations from the front of the queue only, one at most and
\* only to execute it, and adds operations at the back only, and only when a
\* sync begins
FifoStep ==
  LET after == Started \o syncQueue'
  IN  /\ Cardinality(Executing' \ Executing) <= 1
      /\ Len(after) >= Len(syncQueue)
      /\ SubSeq(after, 1, Len(syncQueue)) = syncQueue
      /\ syncCount' = syncCount => after = syncQueue

\* C26: an operation waits in the queue only while a drain loop runs; operations
\* leave the queue from the front, one at a time and to be executed; and when
\* every operation settles, every queued operation comes to execute, and
\* isProcessingQueue returns to false with the queue empty
C26_QueueDrains ==
  /\ [](syncQueue # << >> => (isProcessingQueue /\ drains # {}))
  /\ [][FifoStep]_vars
  /\ \A o \in AllOperations : (InQueue(o) ~> (\E d \in Executing : d.op = o))
  /\ (isProcessingQueue ~> (~isProcessingQueue /\ syncQueue = << >>))

\* the last operation of a weekly sync has settled and its loop has ended
C26_Witness ==
  /\ lastSettled.op = [sync |-> 1, name |-> "videos"]
  /\ syncQueue = << >>
  /\ drains = {}
  /\ ~isProcessingQueue

----------------------------------------------------------------------------
(* Properties of the cart *)

\* C28: in every state of the cart, total is the number of entries of items and
\* is not negative
C28_TotalIsCount ==
  /\ cart.total = Len(cart.items)
  /\ cart.total >= 0

----------------------------------------------------------------------------
(* Properties of the realtime channels *)

\* C29: for each table at most one channel created by the service is subscribed
\* at the client, and when the service holds no channel any more, after
\* unsubscribeAll() or after the returned functions were called, none is
\* subscribed
C29_OneLiveChannel ==
  /\ \A table \in Tables : Cardinality(LiveFor(table)) <= 1
  /\ (\A table \in Tables : channels[table] = NoChannel) => live = {}

----------------------------------------------------------------------------
(* Properties of the tabs, continued *)

\* C24: a tab that handles a storage event writes the key again only when the
\* document brought content its own state did not have: a document that comes
\* back with the content the tab already holds is not broadcast once more, so
\* the tabs come to rest after the last admin action
C24_NoEcho ==
  [][(step'.op = "storage" /\ storage' # storage)
     => Content(Parse(Head(events[step'.tab]))) # Content(state[step'.tab])]_vars
====
